---- MODULE Spec2Model ----
(***************************************************************************)
(* Alumni Profile Acquisition Pipeline (MananiDennis/alumniSystem).        *)
(*                                                                         *)
(* The module models, from the Python sources under backend/src:           *)
(*   - the search orchestrator  (services/web_research_service.py)         *)
(*   - the profile extractor    (services/ai_verification.py)              *)
(*   - the persistence session  (database/repository.py, connection.py)    *)
(*   - the batch coordinators   (services/alumni_collector.py,             *)
(*                               services/update_service.py, api/main.py)  *)
(*                                                                         *)
(* Numbers that are floats in the program (confidence scores) are kept as  *)
(* integers counting ten-thousandths: Unit stands for 1.0.                 *)
(***************************************************************************)
EXTENDS Integers, Sequences, FiniteSets, TLC

VARIABLES
    \* ---- search_person_web (one call) ----
    creds,      \* which API-key providers have credentials in the environment
    sq,         \* index of the query being executed (1..Len(Queries)+1)
    sp,         \* index in Providers of the next provider to call for query sq
    slog,       \* per query, the provider calls made so far: <<provider, hits>>
    results,    \* the local list `results` of search_person_web
    sstatus,    \* "running" | "returned"
    lastCall,   \* the latest provider call: [q, p, kind], kind as the world answered
    \* ---- convert_web_data_to_profile (one call) ----
    xclient,    \* self.client is set (an OpenAI key is configured)
    xresp,      \* what the chat-completion call answers
    xout,       \* how the call ended: [st, p], st "pending" before it has
    \* ---- the record store and one service's session ----
    db,         \* the committed rows of alumni_profiles (+ work_history), by id
    sess,       \* the service's SQLAlchemy session: [ok, dirty]
    clock,      \* datetime.now(), in steps
    \* ---- a batch (run_collection_task / update_profiles) ----
    names,      \* the input list: names, or profile ids
    bi,         \* index of the next entry of the batch
    loaded,     \* update_profiles: the AlumniProfile objects loaded up front
    blog,       \* per processed entry: its inputs and its outcome
    task        \* run_collection_task: [status, results, failed_names]

searchVars == <<creds, sq, sp, slog, results, sstatus, lastCall>>
extractVars == <<xclient, xresp, xout>>
storeVars == <<db, sess, clock>>
batchVars == <<names, bi, loaded, blog, task>>

vars == <<creds, sq, sp, slog, results, sstatus, lastCall, xclient, xresp, xout,
          db, sess, clock, names, bi, loaded, blog, task>>

(***************************************************************************)
(* Generic helpers                                                         *)
(***************************************************************************)
Take(s, n) == SubSeq(s, 1, IF Len(s) < n THEN Len(s) ELSE n)

\* "no provider call yet"
NoCall == [q |-> 0, p |-> 0, kind |-> "none"]

\* The parts of the state a specification does not use stay as they start.
SearchIdle ==
    /\ creds = {} /\ sq = 1 /\ sp = 1 /\ slog = <<>> /\ results = <<>>
    /\ sstatus = "idle" /\ lastCall = NoCall

StoreIdle == db = <<>> /\ sess = [ok |-> TRUE, dirty |-> <<>>] /\ clock = 0

BatchIdle ==
    /\ names = <<>> /\ bi = 1 /\ loaded = <<>> /\ blog = <<>>
    /\ task = [status |-> "idle", results |-> <<>>, failed_names |-> <<>>]

RECURSIVE Flatten(_)
Flatten(ss) == IF ss = <<>> THEN <<>> ELSE Head(ss) \o Flatten(Tail(ss))

(***************************************************************************)
(* Data model: models/alumni.py                                            *)
(***************************************************************************)
\* 1.0 as a count of ten-thousandths
Unit == 10000

\* JobPosition.  Years stand for dates (January 1st of the year); 0 is None.
\* company is left out: the extractor always supplies one ("Unknown" at worst).
Job(title, is_current, start, end) ==
    [title |-> title, is_current |-> is_current, start |-> start, end |-> end]

\* "no JobPosition" (a real one never has an empty title)
NoJob == Job("", FALSE, 0, 0)

\* JobPosition.__post_init__ accepts the fields.
JobPostInitOK(title, is_current, start, end) ==
    /\ title # ""
    /\ ~(start # 0 /\ end # 0 /\ start > end)
    /\ ~(is_current /\ end # 0)

\* AlumniProfile.  id 0 is None; "" is None for the text fields (the program
\* only tests them for truthiness).  industry, graduation_year, education and
\* data sources are left out.
Profile(full_name, location, linkedin_url, confidence_score, last_updated) ==
    [full_name |-> full_name, id |-> 0, location |-> location,
     linkedin_url |-> linkedin_url, confidence_score |-> confidence_score,
     work_history |-> <<>>, current_position |-> NoJob,
     last_updated |-> last_updated]

NoProfile == Profile("", "", "", 0, 0)

\* len(full_name.strip()) for the names of the model
StripLen(name) ==
    CASE name = ""  -> 0
      [] name = " " -> 0
      [] name = "J" -> 1
      [] OTHER      -> 2

\* AlumniProfile.__post_init__ accepts the fields.
ProfilePostInitOK(full_name, confidence_score) ==
    /\ full_name # ""
    /\ StripLen(full_name) >= 2
    /\ 0 <= confidence_score /\ confidence_score <= Unit

\* list.sort(key=lambda x: x.start_date or date.min, reverse=True): a stable
\* sort, newest start first, undated entries last.
RECURSIVE InsertByStart(_, _)
InsertByStart(sorted, job) ==
    IF sorted = <<>> THEN <<job>>
    ELSE IF Head(sorted).start >= job.start
         THEN <<Head(sorted)>> \o InsertByStart(Tail(sorted), job)
         ELSE <<job>> \o sorted

RECURSIVE SortByStartDesc(_)
SortByStartDesc(jobs) ==
    IF jobs = <<>> THEN <<>>
    ELSE InsertByStart(SortByStartDesc(SubSeq(jobs, 1, Len(jobs) - 1)),
                       jobs[Len(jobs)])

\* The mutant: the current flag of the other positions is not removed.
AddJobPositionKeepsFlags(p, position) ==
    [p EXCEPT !.current_position =
                  IF position.is_current THEN position ELSE @,
              !.work_history = SortByStartDesc(Append(@, position))]

\* AlumniProfile.add_job_position
AddJobPosition(p, position) ==
    LET cleared == IF position.is_current
                   THEN [i \in 1..Len(p.work_history) |->
                            [p.work_history[i] EXCEPT !.is_current = FALSE]]
                   ELSE p.work_history
    IN  [p EXCEPT !.current_position =
                      IF position.is_current THEN position ELSE @,
                  !.work_history = SortByStartDesc(Append(cleared, position))]

RECURSIVE AddJobPositions(_, _)
AddJobPositions(p, jobs) ==
    IF jobs = <<>> THEN p
    ELSE AddJobPositions(AddJobPosition(p, Head(jobs)), Tail(jobs))

\* The number of work_history entries flagged current
CurrentCount(wh) == Cardinality({i \in 1..Len(wh) : wh[i].is_current})

(***************************************************************************)
(* Profile extractor: ai_verification.py                                   *)
(***************************************************************************)
\* A confidence value as it arrives in the JSON: null, a number, or a string
\* that is not a number.
ConfNull   == [t |-> "null", v |-> 0]
ConfNum(v) == [t |-> "num",  v |-> v]
ConfText   == [t |-> "str",  v |-> 0]

\* The mutant: the 0-100 scale is taken as it comes.
NormalizeConfidenceNoScale(c) ==
    IF c.t = "num" THEN c.v ELSE 0

\* _normalize_confidence
NormalizeConfidence(c) ==
    IF c.t = "null" THEN 0
    ELSE IF c.t = "num"
         THEN IF c.v > Unit /\ c.v <= 100 * Unit THEN c.v \div 100 ELSE c.v
    ELSE 0     \* float("...") raises ValueError: except -> 0.0

\* "Check confidence threshold": if confidence < 0.5: return None
AcceptanceFloor == 5000

\* What the chat-completion call answers.
\*   kind "api_error"   the call raises
\*        "not_json"    json.loads raises JSONDecodeError
\*        "not_object"  valid JSON that is no object (null, a list, a number)
\*        "object"      a JSON object with the fields below
Response(kind, name, conf, loc, url, jobs) ==
    [kind |-> kind, full_name |-> name, confidence_score |-> conf,
     location |-> loc, linkedin_url |-> url, work_history |-> jobs]

NoResponse == Response("none", "", ConfNull, "", "", <<>>)

\* The work_history loop (lines 537-587): an entry without a title is skipped,
\* an entry JobPosition rejects is skipped by the except clause.
RECURSIVE BuildWorkHistory(_)
BuildWorkHistory(raw) ==
    IF raw = <<>> THEN <<>>
    ELSE LET j == Head(raw)
         IN  IF JobPostInitOK(j.title, j.is_current, j.start, j.end)
             THEN <<Job(j.title, j.is_current, j.start, j.end)>>
                  \o BuildWorkHistory(Tail(raw))
             ELSE BuildWorkHistory(Tail(raw))

\* "treat as no result" when no key field carries anything (lines 499-513)
HasMeaningful(r) ==
    \/ r.full_name # ""
    \/ r.work_history # <<>>
    \/ r.linkedin_url # ""
    \/ r.location # ""

Pending == [st |-> "pending", p |-> NoProfile]
None == [st |-> "none", p |-> NoProfile]
Raised == [st |-> "raised", p |-> NoProfile]
Some(p) == [st |-> "profile", p |-> p]

\* The body of the try block of convert_web_data_to_profile (lines 386-645).
ConvertTryBlock(target_name, r, now) ==
    IF r.kind = "api_error" THEN Raised
    ELSE IF r.kind = "not_json" THEN None
    ELSE IF r.kind = "not_object" THEN None
    ELSE IF ~HasMeaningful(r) THEN None
    ELSE LET confidence == NormalizeConfidence(r.confidence_score)
         IN  IF confidence < AcceptanceFloor THEN None
             ELSE IF r.full_name = "" THEN None
             ELSE IF ~ProfilePostInitOK(r.full_name, confidence) THEN Raised
             ELSE Some(AddJobPositions(
                          Profile(r.full_name, r.location, r.linkedin_url,
                                  confidence, now),
                          BuildWorkHistory(r.work_history)))

\* The mutant: no except clause around the body.
ConvertUnguarded(client, target_name, r, now) ==
    IF ~client THEN None ELSE ConvertTryBlock(target_name, r, now)

\* convert_web_data_to_profile: no client -> None; `except Exception` -> None.
ConvertWebDataToProfile(client, target_name, r, now) ==
    IF ~client THEN None
    ELSE LET out == ConvertTryBlock(target_name, r, now)
         IN  IF out.st = "raised" THEN None ELSE out

\* ---- one call of the extractor on bounded inputs ----
\* Model bound: work_history entries in one response
MaxJobs == 2

RECURSIVE SeqsUpTo(_, _)
SeqsUpTo(S, n) ==
    IF n = 0 THEN {<<>>}
    ELSE LET shorter == SeqsUpTo(S, n - 1)
         IN  shorter \cup {Append(s, x) : s \in {t \in shorter : Len(t) = n - 1},
                                          x \in S}

\* work_history entries: every shape of a titled entry, and one without title
RawJobs ==
    [title : {"Dev"}, is_current : BOOLEAN, start : {0, 2}, end : {0, 1}]
    \cup {[title |-> "", is_current |-> TRUE, start |-> 0, end |-> 0]}

\* full names: null/empty, blank, one letter, a real name
RawNames == {"", " ", "J", "Jane Smith"}

\* 0.49, 0.5, 0.8, 1.0, 1.01, 2, 50, 80, 100, 150, -0.5, 0, null, "high"
RawConfs ==
    {ConfNum(4900), ConfNum(5000), ConfNum(8000), ConfNum(Unit),
     ConfNum(10100), ConfNum(2 * Unit), ConfNum(50 * Unit), ConfNum(80 * Unit),
     ConfNum(100 * Unit), ConfNum(150 * Unit), ConfNum(0 - 5000),
     ConfNum(0), ConfNull, ConfText}

ExtractResponses ==
    {Response(k, "", ConfNull, "", "", <<>>) :
        k \in {"api_error", "not_json", "not_object"}}
    \cup {Response("object", n, c, l, "", js) :
            n \in RawNames, c \in RawConfs, l \in {"", "Perth"},
            js \in SeqsUpTo(RawJobs, MaxJobs)}

ExtractInit ==
    /\ xclient \in BOOLEAN
    /\ xresp \in ExtractResponses
    /\ xout = Pending
    /\ SearchIdle /\ StoreIdle /\ BatchIdle

Convert ==
    /\ xout = Pending
    /\ xout' = ConvertWebDataToProfile(xclient, "Jane Smith", xresp, 0)
    /\ UNCHANGED <<xclient, xresp>>
    /\ UNCHANGED <<searchVars, storeVars, batchVars>>

SpecExtract == ExtractInit /\ [][Convert]_vars

(***************************************************************************)
(* C10  Extractor acceptance floor.  convert_web_data_to_profile returns   *)
(* no candidate when the client is unavailable, when the response is not a *)
(* JSON object, when the normalized confidence is below 0.5 or when        *)
(* full_name is absent; every candidate it returns has a non-empty         *)
(* full_name and 0.5 <= confidence_score <= 1; and it never raises.        *)
(***************************************************************************)
C10_ExtractorAcceptanceFloor ==
    xout.st # "pending" =>
        /\ xout.st # "raised"
        /\ ( \/ ~xclient
             \/ xresp.kind # "object"
             \/ NormalizeConfidence(xresp.confidence_score) < AcceptanceFloor
             \/ xresp.full_name = "" ) => xout.st = "none"
        /\ xout.st = "profile" =>
             /\ xout.p.full_name # ""
             /\ AcceptanceFloor <= xout.p.confidence_score
             /\ xout.p.confidence_score <= Unit

\* A response on the 0-100 scale (80) accepted as 0.8.
C10_Witness ==
    /\ xout.st # "pending"
    /\ xresp.confidence_score = ConfNum(80 * Unit)
    /\ xout.st = "profile"
    /\ xout.p.confidence_score = 8000

(***************************************************************************)
(* Search orchestrator: web_research_service.py                            *)
(***************************************************************************)
\* Model bound: the results one answering provider returns for one query
\* (the program asks each provider for 5).
MaxHits == 1

\* unique_queries[:6]
MaxQueries == 6

\* return results[:10]
TopN == 10

\* The seven fixed query templates of _generate_search_queries, in order,
\* followed by the name + additional_info query when additional_info is given.
QueryTemplates(additional_info) ==
    << "professional profile", "LinkedIn", "site:linkedin.com",
       "Edith Cowan University alumni", "ECU alumni",
       "Australia professional", "company profile" >>
    \o (IF additional_info # "" THEN << additional_info >> ELSE << >>)

RECURSIVE Dedup(_, _)
Dedup(qs, seen) ==
    IF qs = <<>> THEN <<>>
    ELSE IF Head(qs) \in seen THEN Dedup(Tail(qs), seen)
         ELSE <<Head(qs)>> \o Dedup(Tail(qs), seen \cup {Head(qs)})

GenerateSearchQueries(additional_info) ==
    Take(Dedup(QueryTemplates(additional_info), {}), MaxQueries)

\* collect_web_research passes this context string
Queries == GenerateSearchQueries("ECU Edith Cowan University Australia")

\* The provider chain: duckduckgo_search, then fallback_search's four strategies.
Providers == << "DuckDuckGo", "Google", "Bing", "Brave", "Direct" >>

KeyProviders == {"Google", "Bing", "Brave"}

\* What the outside world does to one provider call.
\*   "hits"       a response carrying a page of MaxHits results
\*   "empty"      a well-formed response with no results
\*   "timeout"    requests.exceptions.Timeout
\*   "transport"  requests.exceptions.ConnectionError
\*   "ratelimit"  HTTP 429 on every attempt
\*   "http_error" another 4xx/5xx status (raise_for_status raises HTTPError)
\*   "exception"  any other exception (bad JSON, library error)
Failures == {"timeout", "transport", "ratelimit", "http_error", "exception"}
Outcomes == [kind : {"hits"}, n : {MaxHits}]
            \cup [kind : {"empty"} \cup Failures, n : {0}]

\* A provider function's way of ending: it returns a list of `hits` snippets or
\* lets an exception escape (raised = TRUE).
Returned(n) == [raised |-> FALSE, hits |-> n]
Escaped     == [raised |-> TRUE,  hits |-> 0]

\* _safe_request: returns the response, or re-raises what the session raised.
\* A 429 is retried by a recursive call; when every attempt is answered 429
\* the recursion ends in RecursionError, which the except clause re-raises.
SafeRequest(o) ==
    IF o.kind \in {"timeout", "transport", "exception", "ratelimit"}
    THEN "raise" ELSE "response"

\* duckduckgo_search: any exception inside the try block returns [].
DuckDuckGoSearch(o) ==
    IF o.kind = "hits" THEN Returned(o.n) ELSE Returned(0)

\* The mutant: the except clause re-raises instead of returning [].
KeyedSearchReraises(hasKey, o) ==
    IF ~hasKey THEN Returned(0)
    ELSE IF SafeRequest(o) = "raise" \/ o.kind = "http_error" THEN Escaped
    ELSE Returned(o.n)

\* _google_custom_search, _bing_web_search, _brave_search share one shape:
\* no credential -> []; _safe_request raising, raise_for_status raising or any
\* other exception -> logged, []; otherwise the items of the response.
KeyedSearch(hasKey, o) ==
    IF ~hasKey THEN Returned(0)
    ELSE IF SafeRequest(o) = "raise" THEN Returned(0)
    ELSE IF o.kind = "http_error" THEN Returned(0)
    ELSE Returned(o.n)

\* The mutant: the probe finds nothing.
DirectSiteSearchEmpty == Returned(0)

\* _direct_site_search: one LinkedIn mock result and one ECU result, built from
\* the query text alone; results[:5].
DirectSiteSearch == Returned(2)

CallProvider(p, o) ==
    IF p = "DuckDuckGo" THEN DuckDuckGoSearch(o)
    ELSE IF p = "Direct" THEN DirectSiteSearch
    ELSE KeyedSearch(p \in creds, o)

\* `if search_results: ... continue` (line 102) and the `if results: return
\* results` tests of fallback_search (lines 132, 138, 144, 150).
ChainStopsNever(hits) == FALSE

ChainStops(hits) == hits > 0

\* How a call ended, as seen from outside the provider function.
CallKind(p, o) ==
    IF p = "Direct" THEN "hits"
    ELSE IF p \in KeyProviders /\ p \notin creds THEN "nocred"
    ELSE o.kind

\* The snippets one provider call contributes.
Snippets(q, p, n) == [k \in 1..n |-> [query |-> q, source |-> p, k |-> k]]

SearchInit ==
    /\ xclient = TRUE /\ xresp = NoResponse /\ xout = Pending
    /\ StoreIdle /\ BatchIdle
    /\ creds \in SUBSET KeyProviders
    /\ sq = 1
    /\ sp = 1
    /\ slog = [q \in 1..Len(Queries) |-> <<>>]
    /\ results = <<>>
    /\ sstatus = "running"
    /\ lastCall = NoCall

\* One provider call of the loop body of search_person_web (lines 96-121),
\* with the control flow that follows it.
SearchStep ==
    /\ sstatus = "running"
    /\ sq <= Len(Queries)
    /\ \E o \in Outcomes :
         LET p == Providers[sp]
             r == CallProvider(p, o)
         IN  /\ slog' = [slog EXCEPT ![sq] = Append(@, <<p, r.hits>>)]
             /\ lastCall' = [q |-> sq, p |-> sp, kind |-> CallKind(p, o)]
             /\ IF r.raised
                THEN \* except Exception: continue  (lines 118-121)
                     /\ results' = results
                     /\ sq' = sq + 1
                     /\ sp' = 1
                ELSE IF ChainStops(r.hits)
                THEN \* results.extend(...); next query
                     /\ results' = results \o Snippets(sq, p, r.hits)
                     /\ sq' = sq + 1
                     /\ sp' = 1
                ELSE IF sp < Len(Providers)
                THEN /\ results' = results
                     /\ sq' = sq
                     /\ sp' = sp + 1
                ELSE \* "All search strategies failed"
                     /\ results' = results
                     /\ sq' = sq + 1
                     /\ sp' = 1
    /\ UNCHANGED <<creds, sstatus>>
    /\ UNCHANGED <<extractVars, storeVars, batchVars>>

\* return results[:10]  (line 124)
SearchReturn ==
    /\ sstatus = "running"
    /\ sq > Len(Queries)
    /\ results' = Take(results, TopN)
    /\ sstatus' = "returned"
    /\ UNCHANGED <<creds, sq, sp, slog, lastCall>>
    /\ UNCHANGED <<extractVars, storeVars, batchVars>>

SearchNext == SearchStep \/ SearchReturn

SpecSearch == SearchInit /\ [][SearchNext]_vars

\* Everything the provider calls logged so far returned, in encounter order.
Gathered ==
    Flatten([q \in 1..Len(Queries) |->
        Flatten([i \in 1..Len(slog[q]) |->
            Snippets(q, slog[q][i][1], slog[q][i][2])])])

(***************************************************************************)
(* C8  Provider fallback order.  For every query the providers are called  *)
(* in the fixed order DuckDuckGo, Google, Bing, Brave, direct-site probe;  *)
(* only the last call made for a query can have returned results (the      *)
(* first provider with at least one result ends the chain for that query); *)
(* a chain ends only on results or after the fifth provider; and every     *)
(* generated query has been attempted when the call returns.               *)
(***************************************************************************)
C8_ProviderFallbackOrder ==
    /\ \A q \in 1..Len(Queries) :
          /\ Len(slog[q]) <= Len(Providers)
          /\ \A i \in 1..Len(slog[q]) :
                /\ slog[q][i][1] = Providers[i]
                /\ i < Len(slog[q]) => slog[q][i][2] = 0
          /\ q < sq =>
                /\ slog[q] # <<>>
                /\ \/ slog[q][Len(slog[q])][2] > 0
                   \/ Len(slog[q]) = Len(Providers)
    /\ sstatus = "returned" => sq = Len(Queries) + 1

\* A query answered by Google after DuckDuckGo returned nothing, and the
\* orchestrator already past it.
C8_Witness ==
    \E q \in 1..Len(Queries) :
        /\ q < sq
        /\ Len(slog[q]) = 2
        /\ slog[q][2] = <<"Google", MaxHits>>

(***************************************************************************)
(* C9  A single provider outage is never fatal.  However a provider call   *)
(* fails (timeout, transport error, rate limit, HTTP error, any exception, *)
(* missing credential), the orchestrator is next positioned at the         *)
(* following provider of the same query, and the list search_person_web    *)
(* returns is the first TopN of what the other calls returned.             *)
(***************************************************************************)
C9_ProviderOutageNotFatal ==
    /\ (sstatus = "running" /\ lastCall.kind \in Failures \cup {"nocred"})
          => (sq = lastCall.q /\ sp = lastCall.p + 1)
    /\ sstatus = "returned" => results = Take(Gathered, TopN)

\* Google timed out for some query, and the call went on and returned snippets.
C9_Witness ==
    /\ lastCall.kind = "timeout"
    /\ lastCall.p = 2
    /\ sp = 3
    /\ results # <<>>

(***************************************************************************)
(* Persistence: database/repository.py on a session of                     *)
(* database/connection.py (autocommit=False, autoflush=False)              *)
(***************************************************************************)
\* One alumni_profiles row with its work_history rows.
Row(p, last_updated) ==
    [full_name |-> p.full_name, location |-> p.location,
     linkedin_url |-> p.linkedin_url, confidence_score |-> p.confidence_score,
     last_updated |-> last_updated,
     current_job_title |-> p.current_position.title,
     work |-> p.work_history]

\* A session is usable (ok) until a flush or commit fails; nothing in the
\* services or the repository ever calls rollback(), and a session whose flush
\* failed raises on every later query and flush.  dirty holds, oldest first,
\* the attribute changes made to loaded rows and not yet committed.
FreshSession == [ok |-> TRUE, dirty |-> <<>>]

\* What can go wrong inside one repository write:
\*   "none"    nothing
\*   "stmt"    the DELETE of update_alumni raises (for example a lock wait
\*             timeout); the session stays usable
\*   "flush"   session.flush()/commit() raises; the transaction is rolled
\*             back and the session is left unusable
Faults == {"none", "stmt", "flush"}

\* commit: the pending attribute changes reach the committed rows.
RECURSIVE ApplyDirty(_, _)
ApplyDirty(rows, dirty) ==
    IF dirty = <<>> THEN rows
    ELSE LET e == Head(dirty)
         IN  ApplyDirty(
                 [rows EXCEPT ![e.id] =
                     [@ EXCEPT !.full_name = e.full_name,
                               !.location = e.location,
                               !.linkedin_url = e.linkedin_url,
                               !.confidence_score = e.confidence_score,
                               !.last_updated = e.last_updated,
                               !.current_job_title = e.current_job_title]],
                 Tail(dirty))

Wrote(d, s, a) == [raised |-> FALSE, db |-> d, sess |-> s, alumni |-> a]
Threw(d, s)    == [raised |-> TRUE,  db |-> d, sess |-> s, alumni |-> NoProfile]

\* AlumniRepository.create_alumni
CreateAlumni(d, s, alumni, fault) ==
    IF alumni.full_name = "" \/ StripLen(alumni.full_name) < 2
    THEN Threw(d, s)                                     \* ValueError
    ELSE IF ~s.ok THEN Threw(d, s)                       \* flush on a dead session
    ELSE IF fault = "flush" THEN Threw(d, [ok |-> FALSE, dirty |-> <<>>])
    ELSE LET id == Len(d) + 1
         IN  Wrote(Append(ApplyDirty(d, s.dirty), Row(alumni, alumni.last_updated)),
                   [s EXCEPT !.dirty = <<>>],
                   [alumni EXCEPT !.id = id])

\* AlumniRepository.update_alumni
UpdateAlumni(d, s, alumni, fault, now) ==
    IF alumni.id = 0 THEN Threw(d, s)                    \* ValueError
    ELSE IF ~s.ok THEN Threw(d, s)                       \* query on a dead session
    ELSE IF alumni.id \notin DOMAIN d THEN Threw(d, s)   \* ValueError: not found
    ELSE LET changed == Append(s.dirty,
                 [id |-> alumni.id, full_name |-> alumni.full_name,
                  location |-> alumni.location,
                  linkedin_url |-> alumni.linkedin_url,
                  confidence_score |-> alumni.confidence_score,
                  last_updated |-> now,
                  current_job_title |-> alumni.current_position.title])
         IN  IF fault = "stmt" THEN Threw(d, [s EXCEPT !.dirty = changed])
             ELSE IF fault = "flush"
                  THEN Threw(d, [ok |-> FALSE, dirty |-> <<>>])
             ELSE Wrote([ApplyDirty(d, changed) EXCEPT
                            ![alumni.id].work = alumni.work_history],
                        [s EXCEPT !.dirty = <<>>],
                        alumni)

\* AlumniRepository.convert_db_to_alumni_profile
FirstCurrent(wh) ==
    IF \E i \in 1..Len(wh) : wh[i].is_current
    THEN wh[CHOOSE i \in 1..Len(wh) :
                /\ wh[i].is_current
                /\ \A k \in 1..(i - 1) : ~wh[k].is_current]
    ELSE NoJob

ConvertDbToAlumniProfile(id, row) ==
    [full_name |-> row.full_name, id |-> id, location |-> row.location,
     linkedin_url |-> row.linkedin_url,
     confidence_score |-> row.confidence_score,
     work_history |-> row.work, current_position |-> FirstCurrent(row.work),
     last_updated |-> row.last_updated]

(***************************************************************************)
(* Acquisition coordinator: services/alumni_collector.py, api/main.py      *)
(***************************************************************************)
\* Model bound: the entries of one batch
MaxBatch == 2

NameSet == {"Jane Smith", "Alan Kay"}

\* len(search_person_web(...)), its least and its greatest value: every query
\* ends, at the latest, with the two results of the direct-site probe, and the
\* list is cut to TopN.
SearchSizes ==
    {IF n < TopN THEN n ELSE TopN : n \in {Len(Queries), 2 * Len(Queries)}}

\* What the extraction call may answer for a name in a collection batch.
CollectResponses(name) ==
    { Response("not_json", "", ConfNull, "", "", <<>>),
      Response("object", name, ConfNum(4900), "Perth", "", <<>>),
      Response("object", name, ConfNum(90 * Unit), "Perth", "", <<>>),
      Response("object", name, ConfNum(6000), "", "",
               << [title |-> "Dev", is_current |-> TRUE, start |-> 2, end |-> 0] >>) }

\* The body of the loop of collect_web_research for one name (lines 113-142).
\* ai is `self.ai_service` being set.
CollectOne(d, s, ai, name, hits, resp, fault, now) ==
    IF hits = 0
    THEN [db |-> d, sess |-> s, saved |-> <<>>, outcome |-> "no-search-results"]
    ELSE IF ~ai
    THEN [db |-> d, sess |-> s, saved |-> <<>>, outcome |-> "ai-unavailable"]
    ELSE LET structured == ConvertWebDataToProfile(TRUE, name, resp, now)
         IN  IF structured.st # "profile"
             THEN [db |-> d, sess |-> s, saved |-> <<>>,
                   outcome |-> "extraction-returned-nothing"]
             ELSE LET w == CreateAlumni(d, s, structured.p, fault)
                  IN  IF w.raised
                      THEN \* except Exception: log, continue
                           [db |-> w.db, sess |-> w.sess, saved |-> <<>>,
                            outcome |-> "unexpected-error"]
                      ELSE [db |-> w.db, sess |-> w.sess,
                            saved |-> <<w.alumni>>, outcome |-> "accepted"]

\* collect_alumni(names, method) returns what collect_web_research returns:
\* the list collected_profiles.
CollectAlumniReturn(saved) == [type |-> "list", items |-> saved]

\* result.get(key, [])  (main.py lines 425-426): a dict method.
ResultGet(result, key) ==
    IF result.type = "dict"
    THEN [raised |-> FALSE, value |-> result.items]
    ELSE [raised |-> TRUE, value |-> <<>>]          \* AttributeError

CollectInit ==
    /\ SearchIdle
    /\ xclient \in BOOLEAN /\ xresp = NoResponse /\ xout = Pending
    /\ db = <<>> /\ sess = FreshSession /\ clock = 0
    /\ names \in SeqsUpTo(NameSet, MaxBatch) \ {<<>>}
    /\ bi = 1 /\ loaded = <<>> /\ blog = <<>>
    /\ task = [status |-> "running", results |-> <<>>, failed_names |-> <<>>]

\* One pass of the loop of run_collection_task (main.py lines 420-444):
\* collect_alumni([name]) on the task's collector, then the bookkeeping.
CollectStep ==
    /\ task.status = "running"
    /\ bi <= Len(names)
    /\ \E hits \in SearchSizes, resp \in CollectResponses(names[bi]),
          fault \in {"none", "flush"} :
         LET name == names[bi]
             c == CollectOne(db, sess, xclient, name, hits, resp, fault, clock)
             result == CollectAlumniReturn(c.saved)
             got == ResultGet(result, "successful_profiles")
         IN  /\ db' = c.db
             /\ sess' = c.sess
             /\ blog' = Append(blog,
                    [name |-> name, hits |-> hits, resp |-> resp,
                     fault |-> fault, now |-> clock, outcome |-> c.outcome])
             /\ IF got.raised
                THEN \* except Exception as e: failed_names.append(...)
                     task' = [task EXCEPT !.failed_names =
                                 Append(@, [name |-> name,
                                            reason |-> "Unexpected error"])]
                ELSE task' = [task EXCEPT !.results = @ \o got.value]
    /\ bi' = bi + 1
    /\ clock' = clock + 1
    /\ UNCHANGED <<names, loaded>>
    /\ UNCHANGED <<searchVars, extractVars>>

\* The final update of the task (main.py lines 446-459).
CollectFinish ==
    /\ task.status = "running"
    /\ bi > Len(names)
    /\ task' = [task EXCEPT !.status = "completed"]
    /\ UNCHANGED <<names, bi, loaded, blog>>
    /\ UNCHANGED <<searchVars, extractVars, storeVars>>

CollectNext == CollectStep \/ CollectFinish

SpecCollect == CollectInit /\ [][CollectNext]_vars

\* The outcomes collect_web_research gives a list of logged inputs, run one
\* after the other on store d and session s.
RECURSIVE Replay(_, _, _, _)
Replay(entries, d, s, ai) ==
    IF entries = <<>> THEN <<>>
    ELSE LET e == Head(entries)
             c == CollectOne(d, s, ai, e.name, e.hits, e.resp, e.fault, e.now)
         IN  <<c.outcome>> \o Replay(Tail(entries), c.db, c.sess, ai)

Failed(e) == e.outcome # "accepted"

\* The entries before position i that did not fail, followed by entry i.
WithoutFailuresBefore(i) ==
    SelectSeq(SubSeq(blog, 1, i - 1), LAMBDA e : ~Failed(e)) \o <<blog[i]>>

(***************************************************************************)
(* C1  Partial-failure isolation.  Every name of the batch is attempted,   *)
(* and the outcome of each name is the outcome it has in the batch from    *)
(* which the names that failed before it are removed.                      *)
(***************************************************************************)
C1_PartialFailureIsolation ==
    /\ task.status = "completed" => Len(blog) = Len(names)
    /\ \A i \in 1..Len(blog) :
          LET alone == Replay(WithoutFailuresBefore(i), <<>>, FreshSession, xclient)
          IN  blog[i].outcome = alone[Len(alone)]

(***************************************************************************)
(* C2  Batch result partition.  When run_collection_task has finished,     *)
(* every input name is reported in exactly one of results and              *)
(* failed_names: a name whose profile collect_alumni persisted is in       *)
(* results and not in failed_names, any other name is in failed_names.     *)
(***************************************************************************)
C2_BatchResultPartition ==
    task.status = "completed" =>
        \A i \in 1..Len(blog) :
            LET inResults == \E k \in 1..Len(task.results) :
                                 task.results[k].full_name = blog[i].name
                inFailed  == \E k \in 1..Len(task.failed_names) :
                                 task.failed_names[k].name = blog[i].name
            IN  /\ inResults # inFailed
                /\ blog[i].outcome = "accepted" => inResults

(***************************************************************************)
(* C5  Lookup before create.  After any sequence of acquisitions the store *)
(* holds at most one record per name.                                      *)
(***************************************************************************)
C5_LookupBeforeCreate ==
    \A i, j \in DOMAIN db : db[i].full_name = db[j].full_name => i = j

(***************************************************************************)
(* Update coordinator: services/update_service.py, POST /update            *)
(***************************************************************************)
Max(a, b) == IF a >= b THEN a ELSE b

\* Lines 68-81 of update_single_profile: the existing profile after the fresh
\* one has been merged into it.
MergeFresh(profile, fresh, now) ==
    [profile EXCEPT
        !.location = IF fresh.location # "" THEN fresh.location ELSE @,
        !.linkedin_url = IF fresh.linkedin_url # "" THEN fresh.linkedin_url ELSE @,
        !.last_updated = now,
        !.work_history = IF fresh.work_history # <<>> THEN fresh.work_history ELSE @,
        !.current_position =
            IF fresh.work_history # <<>> /\ fresh.current_position # NoJob
            THEN fresh.current_position ELSE @,
        !.confidence_score = Max(@, fresh.confidence_score)]

\* The mutant: last_updated is stamped and saved before the candidate is
\* looked at.
UpdateSingleProfileStampsFirst(d, s, client, profile, hits, resp, fault, now) ==
    LET fresh == ConvertWebDataToProfile(client, profile.full_name, resp, now)
        m == IF hits = 0 \/ fresh.st # "profile"
             THEN [profile EXCEPT !.last_updated = now]
             ELSE MergeFresh(profile, fresh.p, now)
        w == UpdateAlumni(d, s, m, fault, now)
    IN  IF w.raised \/ hits = 0 \/ fresh.st # "profile"
        THEN [db |-> w.db, sess |-> w.sess, ret |-> <<>>, merged |-> m,
              wrote |-> FALSE]
        ELSE [db |-> w.db, sess |-> w.sess, ret |-> <<w.alumni>>, merged |-> m,
              wrote |-> TRUE]

\* update_single_profile: ret is the returned profile (<<>> for None), merged
\* the profile object as the call leaves it.
UpdateSingleProfile(d, s, client, profile, hits, resp, fault, now) ==
    IF hits = 0
    THEN [db |-> d, sess |-> s, ret |-> <<>>, merged |-> profile, wrote |-> FALSE]
    ELSE LET fresh == ConvertWebDataToProfile(client, profile.full_name, resp, now)
         IN  IF fresh.st # "profile"
             THEN [db |-> d, sess |-> s, ret |-> <<>>, merged |-> profile,
                   wrote |-> FALSE]
             ELSE LET m == MergeFresh(profile, fresh.p, now)
                      w == UpdateAlumni(d, s, m, fault, now)
                  IN  IF w.raised
                      THEN \* except Exception: return None
                           [db |-> w.db, sess |-> w.sess, ret |-> <<>>,
                            merged |-> m, wrote |-> FALSE]
                      ELSE [db |-> w.db, sess |-> w.sess, ret |-> <<w.alumni>>,
                            merged |-> m, wrote |-> TRUE]

DevJob  == [title |-> "Dev",  is_current |-> TRUE,  start |-> 1, end |-> 0]
LeadJob == [title |-> "Lead", is_current |-> TRUE,  start |-> 2, end |-> 0]
PastJob == [title |-> "Dev",  is_current |-> FALSE, start |-> 1, end |-> 2]

\* What the extraction call may answer for a profile being refreshed.
UpdateResponses(name) ==
    { Response("not_json", "", ConfNull, "", "", <<>>),
      Response("object", name, ConfNum(6000), "", "", <<>>),
      Response("object", name, ConfNum(9000), "Sydney", "", <<DevJob, LeadJob>>),
      Response("object", name, ConfNum(7000), "", "", <<PastJob>>) }

\* The stores the update runs start from: two records, each created by
\* create_alumni from a candidate of the extractor.
SeedResponses(name) ==
    { Response("object", name, ConfNum(5000), "Perth", "", <<DevJob>>),
      Response("object", name, ConfNum(8000), "Perth", "", <<>>) }

Seeded(d, name, resp) ==
    CreateAlumni(d, FreshSession,
                 ConvertWebDataToProfile(TRUE, name, resp, 0).p, "none").db

UpdateStores ==
    { Seeded(Seeded(<<>>, "Jane Smith", r1),
             "Alan Kay", Response("object", "Alan Kay", ConfNum(5000), "Perth", "",
                                  <<DevJob>>)) :
        r1 \in SeedResponses("Jane Smith") }

UpdateInit ==
    /\ SearchIdle
    /\ xclient = TRUE /\ xresp = NoResponse /\ xout = Pending
    /\ db \in UpdateStores /\ sess = FreshSession /\ clock = 1
    /\ names \in SeqsUpTo(1..3, MaxBatch) \ {<<>>}
    /\ bi = 1 /\ loaded = <<>> /\ blog = <<>>
    /\ task = [status |-> "loading", results |-> <<>>, failed_names |-> <<>>]

\* get_alumni_by_id
GetAlumniById(d, id) ==
    IF id \in DOMAIN d THEN <<ConvertDbToAlumniProfile(id, d[id])>> ELSE <<>>

\* update_profiles_by_ids, lines 92-97: every profile is read before the
\* first one is updated.
UpdateLoad ==
    /\ task.status = "loading"
    /\ loaded' = Flatten([k \in 1..Len(names) |-> GetAlumniById(db, names[k])])
    /\ task' = [task EXCEPT !.status = "running"]
    /\ UNCHANGED <<names, bi, blog>>
    /\ UNCHANGED <<searchVars, extractVars, storeVars>>

\* One pass of the loop of update_profiles (lines 36-49).
UpdateStep ==
    /\ task.status = "running"
    /\ bi <= Len(loaded)
    /\ \E hits \in SearchSizes, resp \in UpdateResponses(loaded[bi].full_name),
          fault \in Faults :
         LET profile == loaded[bi]
             u == UpdateSingleProfile(db, sess, xclient, profile, hits, resp,
                                      fault, clock)
         IN  /\ db' = u.db
             /\ sess' = u.sess
             /\ blog' = Append(blog,
                    [id |-> profile.id, before |-> db[profile.id],
                     fresh |-> ConvertWebDataToProfile(xclient, profile.full_name,
                                                       resp, clock),
                     fault |-> fault, wrote |-> u.wrote, merged |-> u.merged,
                     after |-> u.db[profile.id]])
             /\ task' = [task EXCEPT !.results = @ \o u.ret]
    /\ bi' = bi + 1
    /\ clock' = clock + 1
    /\ UNCHANGED <<names, loaded>>
    /\ UNCHANGED <<searchVars, extractVars>>

\* return updated_profiles
UpdateFinish ==
    /\ task.status = "running"
    /\ bi > Len(loaded)
    /\ task' = [task EXCEPT !.status = "completed"]
    /\ UNCHANGED <<names, bi, loaded, blog>>
    /\ UNCHANGED <<searchVars, extractVars, storeVars>>

UpdateNext == UpdateLoad \/ UpdateStep \/ UpdateFinish

SpecUpdate == UpdateInit /\ [][UpdateNext]_vars

(***************************************************************************)
(* C3  Merge confidence monotonicity.  After every successful              *)
(* update_single_profile the stored confidence_score is the greater of the *)
(* confidence stored before the call and the candidate's confidence; it is *)
(* therefore never below the value stored before.                          *)
(***************************************************************************)
C3_MergeConfidenceMonotone ==
    \A i \in 1..Len(blog) :
        blog[i].wrote =>
            /\ blog[i].after.confidence_score =
                   Max(blog[i].before.confidence_score,
                       blog[i].fresh.p.confidence_score)
            /\ blog[i].after.confidence_score >= blog[i].before.confidence_score

(***************************************************************************)
(* C4  Work-history invariant after merge.  After every successful merge   *)
(* by update_single_profile, the profile (as returned and as stored) has   *)
(* at most one work_history entry with is_current = true, and if it has    *)
(* one, current_position is that entry.                                    *)
(***************************************************************************)
C4_WorkHistoryAfterMerge ==
    \A i \in 1..Len(blog) :
        blog[i].wrote =>
            LET m == blog[i].merged
                r == blog[i].after
            IN  /\ CurrentCount(m.work_history) <= 1
                /\ \A k \in 1..Len(m.work_history) :
                      m.work_history[k].is_current =>
                          m.current_position = m.work_history[k]
                /\ r.work = m.work_history
                /\ \A k \in 1..Len(r.work) :
                      r.work[k].is_current =>
                          r.current_job_title = r.work[k].title

\* A merge that replaced the work history by one extracted from two entries
\* both marked current, and one that kept the stored work history.
C4_Witness ==
    /\ \E i \in 1..Len(blog) :
          /\ blog[i].wrote
          /\ Len(blog[i].merged.work_history) = 2
          /\ blog[i].merged.current_position.title = "Lead"
          /\ blog[i].before.work # blog[i].after.work
    /\ \E i \in 1..Len(blog) :
          /\ blog[i].wrote
          /\ blog[i].before.work = blog[i].after.work
          /\ CurrentCount(blog[i].after.work) = 1

(***************************************************************************)
(* C18  Current-position recomputation on merge.  After every successful   *)
(* update_single_profile whose candidate has a non-empty work_history, the *)
(* profile's work_history is the candidate's list, and current_position    *)
(* and the stored current_job_title are those of the new list's is_current *)
(* entry, or null when the new list has none.                              *)
(***************************************************************************)
C18_CurrentPositionRecomputed ==
    \A i \in 1..Len(blog) :
        (blog[i].wrote /\ blog[i].fresh.p.work_history # <<>>) =>
            LET m == blog[i].merged
                r == blog[i].after
            IN  /\ m.work_history = blog[i].fresh.p.work_history
                /\ r.work = blog[i].fresh.p.work_history
                /\ m.current_position = FirstCurrent(m.work_history)
                /\ r.current_job_title = FirstCurrent(r.work).title

(***************************************************************************)
(* C19  No side effect on rejection.  A call of update_single_profile that *)
(* gets no search results or no accepted candidate leaves the profile      *)
(* object as it was loaded, writes nothing, and leaves every committed     *)
(* record and the session as they were.                                    *)
(***************************************************************************)
C19_NoSideEffectOnRejection ==
    [][(Len(blog') = Len(blog) + 1 /\ blog'[Len(blog')].fresh.st # "profile") =>
          LET e == blog'[Len(blog')]
          IN  /\ e.merged = loaded[bi]
              /\ ~e.wrote
              /\ e.after = e.before
              /\ db' = db
              /\ sess' = sess
              /\ task'.results = task.results]_vars

\* A record that a successful merge has changed, and that a later rejected
\* refresh of the same profile has left as that merge wrote it.
C19_Witness ==
    \E i, j \in 1..Len(blog) :
        /\ i < j
        /\ blog[i].id = blog[j].id
        /\ blog[i].wrote /\ blog[i].after # blog[i].before
        /\ blog[j].fresh.st # "profile"
        /\ blog[j].after = blog[i].after
        /\ db[blog[j].id] = blog[i].after

(***************************************************************************)
(* C7  Merge atomicity.  The committed record of a profile changes only    *)
(* when a write for that profile succeeds, and then to exactly the merged  *)
(* profile of that write: no part of a failed write is ever visible,       *)
(* neither at the failure nor when a later write commits on the session.   *)
(***************************************************************************)
C7_MergeAtomicity ==
    [][\A id \in DOMAIN db :
          db'[id] # db[id] =>
              /\ Len(blog') = Len(blog) + 1
              /\ LET e == blog'[Len(blog')]
                 IN  /\ e.id = id
                     /\ e.wrote
                     /\ db'[id].work = e.merged.work_history
                     /\ db'[id].location = e.merged.location
                     /\ db'[id].confidence_score = e.merged.confidence_score]_vars

(***************************************************************************)
(* Two POST /update requests for the same profile, each with its own       *)
(* UpdateService and session (api/main.py lines 726-743); the endpoint is  *)
(* a plain function, which the server runs on a pool of threads.           *)
(***************************************************************************)
Requests == {1, 2}

\* The profile both requests name in profile_ids.
SharedId == 1

\* The UPDATE a flush emits carries the attributes whose value differs from
\* the one the session read (baseline); the other columns keep what the
\* store holds.  The work_history rows are deleted and re-inserted.
FlushChanged(current, baseline, written) ==
    [full_name |-> IF written.full_name = baseline.full_name
                   THEN current.full_name ELSE written.full_name,
     location |-> IF written.location = baseline.location
                  THEN current.location ELSE written.location,
     linkedin_url |-> IF written.linkedin_url = baseline.linkedin_url
                      THEN current.linkedin_url ELSE written.linkedin_url,
     confidence_score |-> IF written.confidence_score = baseline.confidence_score
                          THEN current.confidence_score
                          ELSE written.confidence_score,
     last_updated |-> written.last_updated,
     current_job_title |-> IF written.current_job_title = baseline.current_job_title
                           THEN current.current_job_title
                           ELSE written.current_job_title,
     work |-> written.work]

Loads(r)  == {i \in 1..Len(blog) : blog[i].req = r /\ blog[i].kind = "load"}
Writes(r) == {i \in 1..Len(blog) : blog[i].req = r /\ blog[i].kind = "write"}

ConcInit ==
    /\ SearchIdle
    /\ xclient = TRUE /\ xresp = NoResponse /\ xout = Pending
    /\ db \in UpdateStores /\ sess = FreshSession /\ clock = 1
    /\ names = [r \in Requests |-> SharedId]
    /\ bi = 1
    /\ loaded = [r \in Requests |-> NoProfile]
    /\ blog = <<>>
    /\ task = [status |-> "running", results |-> <<>>, failed_names |-> <<>>]

\* Request r reads the profile (update_profiles_by_ids, line 95).
ConcLoad(r) ==
    /\ task.status = "running"
    /\ Loads(r) = {}
    /\ loaded' = [loaded EXCEPT ![r] = ConvertDbToAlumniProfile(names[r], db[names[r]])]
    /\ blog' = Append(blog, [req |-> r, kind |-> "load", row |-> db[names[r]],
                             resp |-> NoResponse, now |-> clock, wrote |-> FALSE])
    /\ UNCHANGED <<names, bi, task>>
    /\ UNCHANGED <<searchVars, extractVars, storeVars>>

\* Request r searches, extracts, merges into the profile it read and writes
\* (update_single_profile on its own session).  The row its session compares
\* with is the one it read, or the committed one if it reads the row again.
ConcWrite(r) ==
    /\ task.status = "running"
    /\ Loads(r) # {} /\ Writes(r) = {}
    /\ \E hits \in SearchSizes, resp \in UpdateResponses(loaded[r].full_name),
          reread \in BOOLEAN :
         LET id == names[r]
             u == UpdateSingleProfile(db, FreshSession, xclient, loaded[r],
                                      hits, resp, "none", clock)
             baseline == IF reread THEN db[id]
                         ELSE blog[CHOOSE i \in Loads(r) : TRUE].row
         IN  /\ db' = IF u.wrote
                      THEN [db EXCEPT ![id] = FlushChanged(@, baseline, u.db[id])]
                      ELSE db
             /\ blog' = Append(blog, [req |-> r, kind |-> "write", row |-> db'[id],
                                      resp |-> resp, now |-> clock,
                                      wrote |-> u.wrote])
    /\ clock' = clock + 1
    /\ UNCHANGED <<sess, names, bi, loaded, task>>
    /\ UNCHANGED <<searchVars, extractVars>>

\* Both requests have answered.
ConcFinish ==
    /\ task.status = "running"
    /\ \A r \in Requests : Writes(r) # {}
    /\ task' = [task EXCEPT !.status = "completed"]
    /\ UNCHANGED <<names, bi, loaded, blog>>
    /\ UNCHANGED <<searchVars, extractVars, storeVars>>

ConcNext == (\E r \in Requests : ConcLoad(r) \/ ConcWrite(r)) \/ ConcFinish

SpecConc == ConcInit /\ [][ConcNext]_vars

\* The record after the two logged merges have run one after the other, each
\* reading the profile when it starts.
SerialRow(first, second) ==
    LET w1 == blog[CHOOSE i \in Writes(first) : TRUE]
        w2 == blog[CHOOSE i \in Writes(second) : TRUE]
        d0 == [db EXCEPT ![SharedId] = blog[1].row]
        u1 == UpdateSingleProfile(d0, FreshSession, xclient,
                  ConvertDbToAlumniProfile(SharedId, d0[SharedId]),
                  TopN, w1.resp, "none", w1.now)
        u2 == UpdateSingleProfile(u1.db, FreshSession, xclient,
                  ConvertDbToAlumniProfile(SharedId, u1.db[SharedId]),
                  TopN, w2.resp, "none", w2.now)
    IN  u2.db[SharedId]

SameRecord(a, b) == [a EXCEPT !.last_updated = 0] = [b EXCEPT !.last_updated = 0]

(***************************************************************************)
(* C6  Same-name serialization.  When two concurrent updates of one        *)
(* profile have both merged and written, the stored record is the one a    *)
(* serial execution of the two merges (in one of the two orders) leaves,   *)
(* and its confidence_score is the maximum of the original value and the   *)
(* two candidates' values.                                                 *)
(***************************************************************************)
C6_SameNameSerialization ==
    (task.status = "completed" /\ \A i \in 1..Len(blog) :
                                      blog[i].kind = "write" => blog[i].wrote) =>
        /\ \/ SameRecord(db[SharedId], SerialRow(1, 2))
           \/ SameRecord(db[SharedId], SerialRow(2, 1))
        /\ \A i \in 1..Len(blog) :
              blog[i].kind = "write" =>
                  db[SharedId].confidence_score >=
                      ConvertWebDataToProfile(xclient, blog[1].row.full_name, blog[i].resp,
                                              blog[i].now).p.confidence_score
        /\ db[SharedId].confidence_score >= blog[1].row.confidence_score

(***************************************************************************)
(* Update scheduler: UpdateService.schedule_updates                        *)
(***************************************************************************)
\* datetime.now() of the run, in days; last_updated is counted in days here.
ScheduleNow == 100

\* The mutant: the should_update test is made before the immediate one.
TierShouldFirst(days_old, confidence) ==
    IF days_old > 30 \/ confidence < 6000 THEN "should_update"
    ELSE IF days_old > 90 \/ confidence < 3000 THEN "immediate_update"
    ELSE IF days_old > 7 THEN "can_update"
    ELSE "none"

\* The if / elif / elif of lines 192-212.
Tier(days_old, confidence) ==
    IF days_old > 90 \/ confidence < 3000 THEN "immediate_update"
    ELSE IF days_old > 30 \/ confidence < 6000 THEN "should_update"
    ELSE IF days_old > 7 THEN "can_update"
    ELSE "none"

ScheduleAges == {7, 8, 10, 30, 31, 90, 91, 95}
ScheduleConfs == {2999, 3000, 5999, 6000, 9000, 9500}

ScheduleRows ==
    { [full_name |-> "Jane Smith", location |-> "", linkedin_url |-> "",
       confidence_score |-> c, last_updated |-> ScheduleNow - a,
       current_job_title |-> "", work |-> <<>>] :
        a \in ScheduleAges, c \in ScheduleConfs }

Suggestion(alumni, days_old) ==
    [id |-> alumni.id, name |-> alumni.full_name, days_old |-> days_old,
     confidence |-> alumni.confidence_score]

ScheduleInit ==
    /\ SearchIdle
    /\ xclient = TRUE /\ xresp = NoResponse /\ xout = Pending
    /\ db \in SeqsUpTo(ScheduleRows, MaxBatch) \ {<<>>}
    /\ sess = FreshSession /\ clock = ScheduleNow
    /\ names = <<>> /\ bi = 1 /\ loaded = <<>> /\ blog = <<>>
    /\ task = [status |-> "loading", immediate_update |-> <<>>,
               should_update |-> <<>>, can_update |-> <<>>,
               summary |-> <<0, 0, 0>>]

\* all_alumni = self.repository.get_all_alumni()   (line 186)
ScheduleLoad ==
    /\ task.status = "loading"
    /\ loaded' = [k \in 1..Len(db) |-> ConvertDbToAlumniProfile(k, db[k])]
    /\ task' = [task EXCEPT !.status = "running"]
    /\ UNCHANGED <<names, bi, blog>>
    /\ UNCHANGED <<searchVars, extractVars, storeVars>>

\* One pass of the loop of lines 189-212.
ScheduleStep ==
    /\ task.status = "running"
    /\ bi <= Len(loaded)
    /\ LET alumni == loaded[bi]
           days_old == clock - alumni.last_updated
           tier == Tier(days_old, alumni.confidence_score)
           s == Suggestion(alumni, days_old)
       IN  task' = [task EXCEPT
               !.immediate_update = IF tier = "immediate_update"
                                    THEN Append(@, s) ELSE @,
               !.should_update = IF tier = "should_update"
                                 THEN Append(@, s) ELSE @,
               !.can_update = IF tier = "can_update" THEN Append(@, s) ELSE @]
    /\ bi' = bi + 1
    /\ UNCHANGED <<names, loaded, blog>>
    /\ UNCHANGED <<searchVars, extractVars, storeVars>>

\* suggestions['summary'] and the return (lines 214-220).
ScheduleFinish ==
    /\ task.status = "running"
    /\ bi > Len(loaded)
    /\ task' = [task EXCEPT
           !.status = "completed",
           !.summary = <<Len(task.immediate_update), Len(task.should_update),
                         Len(task.can_update)>>]
    /\ UNCHANGED <<names, bi, loaded, blog>>
    /\ UNCHANGED <<searchVars, extractVars, storeVars>>

ScheduleNext == ScheduleLoad \/ ScheduleStep \/ ScheduleFinish

SpecSchedule == ScheduleInit /\ [][ScheduleNext]_vars

Listed(list, id) == \E k \in 1..Len(list) : list[k].id = id

(***************************************************************************)
(* C11  Scheduler classification, first match wins.  Every profile the     *)
(* scheduler has looked at is in immediate_update iff age_days > 90 or     *)
(* confidence < 0.3; otherwise in should_update iff age_days > 30 or       *)
(* confidence < 0.6; otherwise in can_update iff age_days > 7; otherwise   *)
(* in no list; and never in two lists.                                     *)
(***************************************************************************)
C11_SchedulerClassification ==
    task.status # "loading" =>
        \A id \in 1..(bi - 1) :
            LET age == clock - db[id].last_updated
                conf == db[id].confidence_score
                imm == Listed(task.immediate_update, id)
                should == Listed(task.should_update, id)
                can == Listed(task.can_update, id)
                first == age > 90 \/ conf < 3000
                second == age > 30 \/ conf < 6000
            IN  /\ imm <=> first
                /\ should <=> (~first /\ second)
                /\ can <=> (~first /\ ~second /\ age > 7)
                /\ ~(imm /\ should) /\ ~(imm /\ can) /\ ~(should /\ can)

\* The two examples: age 95 with confidence 0.9 is immediate_update, age 10
\* with confidence 0.95 is can_update.
C11_Witness ==
    /\ task.status = "completed"
    /\ \E k \in 1..Len(task.immediate_update) :
          /\ task.immediate_update[k].days_old = 95
          /\ task.immediate_update[k].confidence = 9000
    /\ \E k \in 1..Len(task.can_update) :
          /\ task.can_update[k].days_old = 10
          /\ task.can_update[k].confidence = 9500

(***************************************************************************)
(* C12  Confidence normalization.  For a numeric confidence c of the       *)
(* response with 1 < c <= 100, _normalize_confidence gives c / 100; with   *)
(* 0 <= c <= 1 it gives c; and that value is the confidence of the         *)
(* candidate the extractor returns.                                        *)
(***************************************************************************)
C12_ConfidenceNormalization ==
    (xresp.kind = "object" /\ xresp.confidence_score.t = "num") =>
        LET c == xresp.confidence_score.v
            n == NormalizeConfidence(xresp.confidence_score)
        IN  /\ (c > Unit /\ c <= 100 * Unit) => n * 100 = c
            /\ (c >= 0 /\ c <= Unit) => n = c
            /\ xout.st = "profile" => xout.p.confidence_score = n

\* A response with confidence 50 accepted with confidence 0.5.
C12_Witness ==
    /\ xresp.confidence_score = ConfNum(50 * Unit)
    /\ xout.st = "profile"
    /\ xout.p.confidence_score = 5000

(***************************************************************************)
(* Taxonomy normalizer: AIVerificationService.normalize_industry           *)
(* Strings are sequences of one-character strings.                         *)
(***************************************************************************)
\* IndustryType (models/alumni.py), the values of the enum
Categories ==
    {"Technology", "Finance", "Healthcare", "Education", "Consulting", "Mining",
     "Government", "Non-Profit", "Retail", "Manufacturing", "Other"}

\* The spelling of each enum value.
Spelling ==
    ("Technology" :> <<"T", "e", "c", "h", "n", "o", "l", "o", "g", "y">>) @@
    ("Finance" :> <<"F", "i", "n", "a", "n", "c", "e">>) @@
    ("Healthcare" :> <<"H", "e", "a", "l", "t", "h", "c", "a", "r", "e">>) @@
    ("Education" :> <<"E", "d", "u", "c", "a", "t", "i", "o", "n">>) @@
    ("Consulting" :> <<"C", "o", "n", "s", "u", "l", "t", "i", "n", "g">>) @@
    ("Mining" :> <<"M", "i", "n", "i", "n", "g">>) @@
    ("Government" :> <<"G", "o", "v", "e", "r", "n", "m", "e", "n", "t">>) @@
    ("Non-Profit" :> <<"N", "o", "n", "-", "P", "r", "o", "f", "i", "t">>) @@
    ("Retail" :> <<"R", "e", "t", "a", "i", "l">>) @@
    ("Manufacturing" :> <<"M", "a", "n", "u", "f", "a", "c", "t", "u", "r", "i", "n", "g">>) @@
    ("Other" :> <<"O", "t", "h", "e", "r">>)

\* industry_mapping, in the order of the dict literal (lines 39-101)
IndustryMapping ==
    << 
       <<<<"t", "e", "c", "h", "n", "o", "l", "o", "g", "y">>, "Technology">>,
       <<<<"i", "n", "f", "o", "r", "m", "a", "t", "i", "o", "n", " ", "t", "e", "c", "h", "n", "o", "l", "o", "g", "y">>, "Technology">>,
       <<<<"s", "o", "f", "t", "w", "a", "r", "e">>, "Technology">>,
       <<<<"i", "t">>, "Technology">>,
       <<<<"c", "o", "m", "p", "u", "t", "e", "r">>, "Technology">>,
       <<<<"t", "e", "c", "h">>, "Technology">>,
       <<<<"e", "n", "g", "i", "n", "e", "e", "r", "i", "n", "g">>, "Technology">>,
       <<<<"d", "a", "t", "a">>, "Technology">>,
       <<<<"a", "i">>, "Technology">>,
       <<<<"a", "r", "t", "i", "f", "i", "c", "i", "a", "l", " ", "i", "n", "t", "e", "l", "l", "i", "g", "e", "n", "c", "e">>, "Technology">>,
       <<<<"f", "i", "n", "a", "n", "c", "e">>, "Finance">>,
       <<<<"f", "i", "n", "a", "n", "c", "i", "a", "l">>, "Finance">>,
       <<<<"b", "a", "n", "k", "i", "n", "g">>, "Finance">>,
       <<<<"i", "n", "v", "e", "s", "t", "m", "e", "n", "t">>, "Finance">>,
       <<<<"a", "c", "c", "o", "u", "n", "t", "i", "n", "g">>, "Finance">>,
       <<<<"h", "e", "a", "l", "t", "h", "c", "a", "r", "e">>, "Healthcare">>,
       <<<<"h", "e", "a", "l", "t", "h">>, "Healthcare">>,
       <<<<"m", "e", "d", "i", "c", "a", "l">>, "Healthcare">>,
       <<<<"p", "h", "a", "r", "m", "a", "c", "e", "u", "t", "i", "c", "a", "l">>, "Healthcare">>,
       <<<<"b", "i", "o", "t", "e", "c", "h">>, "Healthcare">>,
       <<<<"e", "d", "u", "c", "a", "t", "i", "o", "n">>, "Education">>,
       <<<<"a", "c", "a", "d", "e", "m", "i", "c">>, "Education">>,
       <<<<"t", "e", "a", "c", "h", "i", "n", "g">>, "Education">>,
       <<<<"u", "n", "i", "v", "e", "r", "s", "i", "t", "y">>, "Education">>,
       <<<<"s", "c", "h", "o", "o", "l">>, "Education">>,
       <<<<"c", "o", "n", "s", "u", "l", "t", "i", "n", "g">>, "Consulting">>,
       <<<<"c", "o", "n", "s", "u", "l", "t", "a", "n", "t">>, "Consulting">>,
       <<<<"a", "d", "v", "i", "s", "o", "r", "y">>, "Consulting">>,
       <<<<"m", "i", "n", "i", "n", "g">>, "Mining">>,
       <<<<"r", "e", "s", "o", "u", "r", "c", "e", "s">>, "Mining">>,
       <<<<"e", "n", "e", "r", "g", "y">>, "Mining">>,
       <<<<"g", "o", "v", "e", "r", "n", "m", "e", "n", "t">>, "Government">>,
       <<<<"p", "u", "b", "l", "i", "c", " ", "s", "e", "c", "t", "o", "r">>, "Government">>,
       <<<<"m", "i", "l", "i", "t", "a", "r", "y">>, "Government">>,
       <<<<"n", "o", "n", "-", "p", "r", "o", "f", "i", "t">>, "Non-Profit">>,
       <<<<"n", "o", "n", "p", "r", "o", "f", "i", "t">>, "Non-Profit">>,
       <<<<"c", "h", "a", "r", "i", "t", "y">>, "Non-Profit">>,
       <<<<"n", "g", "o">>, "Non-Profit">>,
       <<<<"r", "e", "t", "a", "i", "l">>, "Retail">>,
       <<<<"s", "a", "l", "e", "s">>, "Retail">>,
       <<<<"m", "a", "r", "k", "e", "t", "i", "n", "g">>, "Retail">>,
       <<<<"m", "a", "n", "u", "f", "a", "c", "t", "u", "r", "i", "n", "g">>, "Manufacturing">>,
       <<<<"p", "r", "o", "d", "u", "c", "t", "i", "o", "n">>, "Manufacturing">>,
       <<<<"i", "n", "d", "u", "s", "t", "r", "i", "a", "l">>, "Manufacturing">> >>

\* str.lower() on the letters
LowerOf ==
    ("A" :> "a") @@ ("B" :> "b") @@ ("C" :> "c") @@ ("D" :> "d") @@ ("E" :> "e") @@ ("F" :> "f") @@ ("G" :> "g") @@ ("H" :> "h") @@ ("I" :> "i") @@ ("J" :> "j") @@ ("K" :> "k") @@ ("L" :> "l") @@ ("M" :> "m") @@ ("N" :> "n") @@ ("O" :> "o") @@ ("P" :> "p") @@ ("Q" :> "q") @@ ("R" :> "r") @@ ("S" :> "s") @@ ("T" :> "t") @@ ("U" :> "u") @@ ("V" :> "v") @@ ("W" :> "w") @@ ("X" :> "x") @@ ("Y" :> "y") @@ ("Z" :> "z")

Lower(str) ==
    [i \in 1..Len(str) |-> IF str[i] \in DOMAIN LowerOf THEN LowerOf[str[i]] ELSE str[i]]

\* str.strip()
RECURSIVE StripLeft(_)
StripLeft(str) ==
    IF str # <<>> /\ Head(str) = " " THEN StripLeft(Tail(str)) ELSE str

RECURSIVE StripRight(_)
StripRight(str) ==
    IF str # <<>> /\ str[Len(str)] = " "
    THEN StripRight(SubSeq(str, 1, Len(str) - 1)) ELSE str

Strip(str) == StripRight(StripLeft(str))

\* `needle in hay` on strings
Contains(hay, needle) ==
    \E i \in 0..(Len(hay) - Len(needle)) :
        SubSeq(hay, i + 1, i + Len(needle)) = needle

\* A possibly-null string; the result None is "".
NullStr == [null |-> TRUE, chars |-> <<>>]
Str(chars) == [null |-> FALSE, chars |-> chars]

\* The first entry of the mapping, from position k on, for which
\* `key in normalized or normalized in key` holds; "Other" when there is none.
RECURSIVE PartialMatch(_, _)
PartialMatch(normalized, k) ==
    IF k > Len(IndustryMapping) THEN "Other"
    ELSE IF \/ Contains(normalized, IndustryMapping[k][1])
            \/ Contains(IndustryMapping[k][1], normalized)
         THEN IndustryMapping[k][2]
         ELSE PartialMatch(normalized, k + 1)

\* The mutant: an unknown industry is returned as None.
NormalizeIndustryNoDefault(industry_str) ==
    IF industry_str.null \/ industry_str.chars = <<>> THEN ""
    ELSE LET normalized == Lower(Strip(industry_str.chars))
         IN  IF \E k \in 1..Len(IndustryMapping) : IndustryMapping[k][1] = normalized
             THEN IndustryMapping[CHOOSE k \in 1..Len(IndustryMapping) :
                                      IndustryMapping[k][1] = normalized][2]
             ELSE IF PartialMatch(normalized, 1) = "Other" THEN ""
                  ELSE PartialMatch(normalized, 1)

\* The mutant: the input is stripped but not lower-cased.
NormalizeIndustryNoLower(industry_str) ==
    IF industry_str.null \/ industry_str.chars = <<>> THEN ""
    ELSE LET normalized == Strip(industry_str.chars)
         IN  IF \E k \in 1..Len(IndustryMapping) : IndustryMapping[k][1] = normalized
             THEN IndustryMapping[CHOOSE k \in 1..Len(IndustryMapping) :
                                      IndustryMapping[k][1] = normalized][2]
             ELSE PartialMatch(normalized, 1)

\* normalize_industry
NormalizeIndustry(industry_str) ==
    IF industry_str.null \/ industry_str.chars = <<>> THEN ""
    ELSE LET normalized == Lower(Strip(industry_str.chars))
         IN  IF \E k \in 1..Len(IndustryMapping) : IndustryMapping[k][1] = normalized
             THEN IndustryMapping[CHOOSE k \in 1..Len(IndustryMapping) :
                                      IndustryMapping[k][1] = normalized][2]
             ELSE PartialMatch(normalized, 1)

\* The inputs: null, "", the enum values, the keys of the table (as they are
\* and padded with blanks), and other industry texts.
IndustryInputs ==
    {NullStr, Str(<<>>)}
    \cup {Str(Spelling[c]) : c \in Categories}
    \cup {Str(IndustryMapping[k][1]) : k \in 1..Len(IndustryMapping)}
    \cup {Str(<<" ">> \o IndustryMapping[k][1] \o <<" ">>) :
            k \in 1..Len(IndustryMapping)}
    \cup {Str(w) : w \in {
      <<"I", "T">>,
      <<" ", "S", "o", "f", "t", "w", "a", "r", "e", " ", "E", "n", "g", "i", "n", "e", "e", "r", "i", "n", "g", " ">>,
      <<"h", "o", "s", "p", "i", "t", "a", "l", "i", "t", "y">>,
      <<"A", "g", "r", "i", "c", "u", "l", "t", "u", "r", "e">>,
      <<"L", "a", "w">>,
      <<"x">>,
      <<"t", "e", "c">>,
      <<"P", "u", "b", "l", "i", "c", " ", "S", "e", "c", "t", "o", "r">>,
      <<"O", "i", "l", " ", "a", "n", "d", " ", "G", "a", "s">>,
      <<"B", "a", "n", "k", "i", "n", "g">>,
      <<" ">>,
      <<"N", "G", "O">>,
      <<"l", "e", "g", "a", "l">>,
      <<"H", "e", "a", "l", "t", "h", " ", "C", "a", "r", "e">>,
      <<"o", "t", "h", "e", "r">>,
      <<"T", "E", "C", "H", "N", "O", "L", "O", "G", "Y">>,
      <<"A", "r", "t", "s">>,
      <<"B", "i", "o", "t", "e", "c", "h">> }}

NotNormalized == [st |-> "pending", first |-> "", second |-> ""]

IndustryInit ==
    /\ SearchIdle /\ StoreIdle /\ BatchIdle
    /\ xclient = TRUE
    /\ xresp \in IndustryInputs
    /\ xout = NotNormalized

\* industry = self.normalize_industry(...)
NormalizeOnce ==
    /\ xout.st = "pending"
    /\ xout' = [st |-> "once", first |-> NormalizeIndustry(xresp), second |-> ""]
    /\ UNCHANGED <<xclient, xresp>>
    /\ UNCHANGED <<searchVars, storeVars, batchVars>>

\* The category a first call returned is normalized again.
NormalizeTwice ==
    /\ xout.st = "once"
    /\ xout.first # ""
    /\ xout' = [xout EXCEPT !.st = "twice",
                            !.second = NormalizeIndustry(Str(Spelling[xout.first]))]
    /\ UNCHANGED <<xclient, xresp>>
    /\ UNCHANGED <<searchVars, storeVars, batchVars>>

IndustryNext == NormalizeOnce \/ NormalizeTwice

SpecIndustry == IndustryInit /\ [][IndustryNext]_vars

\* A key of the table equals the cleaned input, or one contains the other.
SomeKeyMatches(normalized) ==
    \E k \in 1..Len(IndustryMapping) :
        \/ IndustryMapping[k][1] = normalized
        \/ Contains(normalized, IndustryMapping[k][1])
        \/ Contains(IndustryMapping[k][1], normalized)

(***************************************************************************)
(* C13  Taxonomy normalizer totality.  normalize_industry returns null for *)
(* a null or empty input; for every non-empty input it returns one member  *)
(* of the closed category set, never null, and it returns Other when no    *)
(* key of the table matches exactly or by containment in either direction. *)
(***************************************************************************)
C13_TaxonomyTotality ==
    xout.st # "pending" =>
        IF xresp.null \/ xresp.chars = <<>>
        THEN xout.first = ""
        ELSE /\ xout.first \in Categories
             /\ ~SomeKeyMatches(Lower(Strip(xresp.chars))) => xout.first = "Other"

\* An input no key matches ("Law") mapped to Other.
C13_Witness ==
    /\ xout.st # "pending"
    /\ xresp = Str(<<"L", "a", "w">>)
    /\ xout.first = "Other"

(***************************************************************************)
(* C14  Taxonomy round trip.  normalize_industry maps every category name  *)
(* of the closed set (Other included) to itself, so normalizing the result *)
(* of a normalization gives that result again.                             *)
(***************************************************************************)
C14_TaxonomyRoundTrip ==
    /\ xout.st # "pending" =>
          \A c \in Categories : xresp = Str(Spelling[c]) => xout.first = c
    /\ xout.st = "twice" => xout.second = xout.first

\* "hospitality" normalized to Technology (it contains the key "it"), and
\* Technology normalized again.
C14_Witness ==
    /\ xout.st = "twice"
    /\ xresp = Str(<<"h", "o", "s", "p", "i", "t", "a", "l", "i", "t", "y">>)
    /\ xout.first = "Technology"
    /\ xout.second = "Technology"

(***************************************************************************)
(* Fallback verification: basic_verification, calculate_name_similarity    *)
(* A name is the sequence of its whitespace-separated tokens; a location   *)
(* is a sequence of characters.                                            *)
(***************************************************************************)
\* Model bound: tokens in a name
MaxTokens == 2

NameTokens == {"jane", "Jane", "smith", "doe"}

\* str.lower() on a token
LowerToken(t) == IF t = "Jane" THEN "jane" ELSE t

\* set(name.lower().split())
NameParts(name) == {LowerToken(name[i]) : i \in 1..Len(name)}

\* calculate_name_similarity, as the fraction num / den
CalculateNameSimilarity(name1, name2) ==
    IF name1 = <<>> \/ name2 = <<>> THEN [num |-> 0, den |-> 1]
    ELSE LET name1_parts == NameParts(name1)
             name2_parts == NameParts(name2)
         IN  IF name1_parts = {} \/ name2_parts = {} THEN [num |-> 0, den |-> 1]
             ELSE [num |-> Cardinality(name1_parts \cap name2_parts),
                   den |-> Cardinality(name1_parts \cup name2_parts)]

\* australian_indicators (line 283)
AustralianIndicators ==
    {<<"a", "u", "s", "t", "r", "a", "l", "i", "a">>,
     <<"p", "e", "r", "t", "h">>,
     <<"s", "y", "d", "n", "e", "y">>,
     <<"m", "e", "l", "b", "o", "u", "r", "n", "e">>,
     <<"b", "r", "i", "s", "b", "a", "n", "e">>}

\* The location check of lines 278-284.
LocationMatch(location_hint, scraped_location) ==
    IF location_hint # <<>> /\ scraped_location # <<>>
    THEN Contains(Lower(scraped_location), Lower(location_hint))
    ELSE IF scraped_location # <<>>
    THEN \E indicator \in AustralianIndicators :
             Contains(Lower(scraped_location), indicator)
    ELSE FALSE

\* The mutant: a match needs only one of the two tests.
BasicVerificationEitherTest(target_name, scraped_name, location_hint, scraped_location) ==
    LET name_similarity == CalculateNameSimilarity(target_name, scraped_name)
        location_match == LocationMatch(location_hint, scraped_location)
        tenths == 7 * name_similarity.num
                  + (IF location_match THEN 3 * name_similarity.den ELSE 0)
    IN  [is_match |-> \/ tenths > 6 * name_similarity.den
                      \/ 2 * name_similarity.num > name_similarity.den,
         confidence |-> [num |-> tenths, den |-> 10 * name_similarity.den],
         name_similarity |-> name_similarity,
         location_match |-> location_match]

\* basic_verification.  confidence = name_similarity * 0.7 (+ 0.3) is kept as
\* the fraction (7 * num + 3 * den * location_match) / (10 * den).
BasicVerification(target_name, scraped_name, location_hint, scraped_location) ==
    LET name_similarity == CalculateNameSimilarity(target_name, scraped_name)
        location_match == LocationMatch(location_hint, scraped_location)
        tenths == 7 * name_similarity.num
                  + (IF location_match THEN 3 * name_similarity.den ELSE 0)
    IN  [is_match |-> /\ tenths > 6 * name_similarity.den
                      /\ 2 * name_similarity.num > name_similarity.den,
         confidence |-> [num |-> tenths, den |-> 10 * name_similarity.den],
         name_similarity |-> name_similarity,
         location_match |-> location_match]

LocationHints ==
    {<<>>, <<"P", "e", "r", "t", "h">>, <<"L", "o", "n", "d", "o", "n">>}

ScrapedLocations ==
    {<<>>, <<"P", "e", "r", "t", "h", ",", " ", "A", "u", "s", "t", "r", "a", "l", "i", "a">>,
     <<"L", "o", "n", "d", "o", "n">>,
     <<"p", "e", "r", "t", "h", " ", "w", "a">>,
     <<"S", "y", "d", "n", "e", "y", " ", "N", "S", "W">>}

NotVerified ==
    [st |-> "pending", is_match |-> FALSE, confidence |-> [num |-> 0, den |-> 1],
     name_similarity |-> [num |-> 0, den |-> 1], location_match |-> FALSE]

VerifyInit ==
    /\ SearchIdle /\ StoreIdle /\ BatchIdle
    /\ xclient = FALSE
    /\ xresp \in [target_name : SeqsUpTo(NameTokens, MaxTokens),
                  scraped_name : SeqsUpTo(NameTokens, MaxTokens),
                  location_hint : LocationHints,
                  scraped_location : ScrapedLocations]
    /\ xout = NotVerified

BasicVerify ==
    /\ xout.st = "pending"
    /\ LET v == BasicVerification(xresp.target_name, xresp.scraped_name,
                                  xresp.location_hint, xresp.scraped_location)
       IN  xout' = [st |-> "verified", is_match |-> v.is_match,
                    confidence |-> v.confidence,
                    name_similarity |-> v.name_similarity,
                    location_match |-> v.location_match]
    /\ UNCHANGED <<xclient, xresp>>
    /\ UNCHANGED <<searchVars, storeVars, batchVars>>

SpecVerify == VerifyInit /\ [][BasicVerify]_vars

(***************************************************************************)
(* C15  Fallback verification rule.  name_similarity is the token-set      *)
(* overlap |A n B| / |A u B| of the lower-cased names (0 when a name is    *)
(* empty); location_match is 1 when the hint, or with no hint a regional   *)
(* indicator, occurs in the scraped location; confidence = 0.7 *           *)
(* name_similarity + 0.3 * location_match; and a match is reported iff     *)
(* confidence > 0.6 and name_similarity > 0.5.                             *)
(***************************************************************************)
C15_FallbackVerificationRule ==
    xout.st = "verified" =>
        LET A == {LowerToken(xresp.target_name[i]) :
                     i \in 1..Len(xresp.target_name)}
            B == {LowerToken(xresp.scraped_name[i]) :
                     i \in 1..Len(xresp.scraped_name)}
            sim == xout.name_similarity
            conf == xout.confidence
            loc == IF xout.location_match THEN 1 ELSE 0
            wanted == IF xresp.scraped_location = <<>> THEN FALSE
                      ELSE IF xresp.location_hint # <<>>
                      THEN Contains(Lower(xresp.scraped_location),
                                    Lower(xresp.location_hint))
                      ELSE \E w \in AustralianIndicators :
                               Contains(Lower(xresp.scraped_location), w)
        IN  /\ IF A = {} \/ B = {}
               THEN sim.num = 0
               ELSE sim.num * Cardinality(A \cup B)
                       = Cardinality(A \cap B) * sim.den
            /\ xout.location_match = wanted
            \* conf = 0.7 * sim + 0.3 * loc, over the common denominator
            /\ 10 * conf.num * sim.den
                  = (7 * sim.num + 3 * loc * sim.den) * conf.den
            /\ xout.is_match <=>
                  (10 * conf.num > 6 * conf.den /\ 2 * sim.num > sim.den)

\* Half the tokens shared and the location matching: confidence 0.65 is above
\* 0.6, yet name_similarity 0.5 is not above 0.5 and no match is reported.
C15_Witness ==
    /\ xout.st = "verified"
    /\ xout.name_similarity = [num |-> 1, den |-> 2]
    /\ xout.location_match
    /\ xout.confidence = [num |-> 13, den |-> 20]
    /\ ~xout.is_match

(***************************************************************************)
(* One provider request: WebResearchService._safe_request                  *)
(***************************************************************************)
\* Model bound: the nested calls of _safe_request the interpreter allows
\* before it raises RecursionError (sys.getrecursionlimit() is 1000).
MaxDepth == 4

\* time.sleep(min(int(retry_after), 60))
SleepCap == 60

\* What one session request ends with: a response with a status code (and,
\* for 429, the Retry-After header as seconds, "" when it is absent, "date"
\* when it is not a number), or an exception.
Answers ==
    [kind : {"response"}, status : {200, 500}, retry_after : {""}]
    \cup [kind : {"response"}, status : {429}, retry_after : {"", "0", "30", "120", "date"}]
    \cup [kind : {"timeout", "transport", "exception"}, status : {0}, retry_after : {""}]

NoAnswer == [kind |-> "none", status |-> 0, retry_after |-> ""]

\* int(response.headers.get('Retry-After', '60')): -1 stands for ValueError
RetryAfterSeconds(h) ==
    IF h = "" THEN 60
    ELSE IF h = "0" THEN 0
    ELSE IF h = "30" THEN 30
    ELSE IF h = "120" THEN 120
    ELSE 0 - 1

RequestStart == [st |-> "calling", depth |-> 1, slept |-> 0, error |-> ""]

RetryInit ==
    /\ SearchIdle /\ StoreIdle /\ BatchIdle
    /\ xclient = TRUE
    /\ xresp = NoAnswer
    /\ xout = RequestStart

\* The body of _safe_request at nesting depth xout.depth: one request, then
\* return the response, raise, or sleep and call _safe_request again.
SafeRequestAttempt ==
    /\ xout.st = "calling"
    /\ \E a \in Answers :
         /\ xresp' = a
         /\ xout' =
              IF a.kind # "response"
              THEN [xout EXCEPT !.st = "raised", !.error = a.kind]
              ELSE IF a.status # 429
              THEN [xout EXCEPT !.st = "returned"]
              ELSE IF RetryAfterSeconds(a.retry_after) < 0
              THEN [xout EXCEPT !.st = "raised", !.error = "ValueError"]
              ELSE LET nap == IF RetryAfterSeconds(a.retry_after) < SleepCap
                              THEN RetryAfterSeconds(a.retry_after) ELSE SleepCap
                   IN  IF xout.depth = MaxDepth
                       THEN \* the nested call does not fit on the stack
                            [xout EXCEPT !.st = "raised", !.slept = @ + nap,
                                         !.error = "RecursionError"]
                       ELSE [xout EXCEPT !.depth = @ + 1, !.slept = @ + nap]
    /\ UNCHANGED xclient
    /\ UNCHANGED <<searchVars, storeVars, batchVars>>

\* The caller (_google_custom_search, _bing_web_search, _brave_search) has
\* the response, or has logged the exception and returned [].
ProviderDone ==
    /\ xout.st \in {"returned", "raised"}
    /\ xout' = [xout EXCEPT !.st = "done"]
    /\ UNCHANGED <<xclient, xresp>>
    /\ UNCHANGED <<searchVars, storeVars, batchVars>>

RetryNext == SafeRequestAttempt \/ ProviderDone

SpecRetry == RetryInit /\ [][RetryNext]_vars

(***************************************************************************)
(* C16  Bounded rate-limit retry.  A call that keeps receiving HTTP 429 is *)
(* retried a capped number of times and then gives up by itself: the       *)
(* retries of one call stay below what the interpreter's stack allows, so  *)
(* the call never ends by running out of stack.                            *)
(***************************************************************************)
C16_BoundedRateLimitRetry ==
    xout.error # "RecursionError"

(***************************************************************************)
(* The stages of one name: the statements of the loop body of              *)
(* collect_web_research (path "collect") and of update_single_profile      *)
(* (path "update"), one action per call.                                   *)
(***************************************************************************)
StageOrder == <<"pending", "searching", "extracting", "merging">>
Terminal == {"accepted", "rejected"}

\* The mutant: the `if not web_results` test is missing.
AfterSearchNoTest(path, hits, ai) ==
    IF path = "collect" /\ ~ai THEN "rejected" ELSE "extracting"

\* After search_person_web: `if not web_results: continue / return None`,
\* and in collect_web_research `if self.ai_service: ... else: warning`.
AfterSearch(path, hits, ai) ==
    IF hits = 0 THEN "rejected"
    ELSE IF path = "collect" /\ ~ai THEN "rejected"
    ELSE "extracting"

\* After convert_web_data_to_profile: `if structured_profile` /
\* `if not fresh_profile: return None`.
AfterExtract(candidate) ==
    IF candidate.st = "profile" THEN "merging" ELSE "rejected"

\* The sizes of web_results the stage model draws; 0 keeps the test of an
\* empty list in play.
StageHits == {0} \cup SearchSizes

StageEntry(who) ==
    [who |-> who, stages |-> <<"pending">>, hits |-> 0, candidate |-> None,
     persisted |-> FALSE]

StageInit ==
    /\ SearchIdle
    /\ xclient \in BOOLEAN /\ xresp = NoResponse /\ xout = Pending
    /\ sess = FreshSession /\ clock = 1
    /\ \/ /\ db = <<>>
          /\ names \in SeqsUpTo(NameSet, MaxBatch) \ {<<>>}
          /\ loaded = <<>>
          /\ task = [status |-> "running", path |-> "collect"]
       \/ /\ db \in UpdateStores
          /\ names \in SeqsUpTo(DOMAIN db, MaxBatch) \ {<<>>}
          /\ loaded = [k \in 1..Len(names) |->
                          ConvertDbToAlumniProfile(names[k], db[names[k]])]
          /\ task = [status |-> "running", path |-> "update"]
    /\ bi = 1
    /\ blog = <<StageEntry(names[1])>>

Stage == blog[bi].stages[Len(blog[bi].stages)]

Enter(stage) == [blog EXCEPT ![bi].stages = Append(@, stage)]

TargetName == IF task.path = "collect" THEN names[bi] ELSE loaded[bi].full_name

\* web_results = ...search_person_web(...) is called
StageSearch ==
    /\ task.status = "running" /\ Stage = "pending"
    /\ blog' = Enter("searching")
    /\ UNCHANGED <<names, bi, loaded, task>>
    /\ UNCHANGED <<searchVars, extractVars, storeVars>>

\* search_person_web has returned
StageSearched ==
    /\ task.status = "running" /\ Stage = "searching"
    /\ \E hits \in StageHits :
         blog' = [Enter(AfterSearch(task.path, hits, xclient)) EXCEPT ![bi].hits = hits]
    /\ UNCHANGED <<names, bi, loaded, task>>
    /\ UNCHANGED <<searchVars, extractVars, storeVars>>

\* convert_web_data_to_profile has returned
StageExtracted ==
    /\ task.status = "running" /\ Stage = "extracting"
    /\ \E resp \in UpdateResponses(TargetName) :
         LET candidate == ConvertWebDataToProfile(xclient, TargetName, resp, clock)
         IN  blog' = [Enter(AfterExtract(candidate)) EXCEPT ![bi].candidate = candidate]
    /\ UNCHANGED <<names, bi, loaded, task>>
    /\ UNCHANGED <<searchVars, extractVars, storeVars>>

\* create_alumni / (merge and) update_alumni has returned or raised
StagePersisted ==
    /\ task.status = "running" /\ Stage = "merging"
    /\ \E fault \in Faults :
         LET w == IF task.path = "collect"
                  THEN CreateAlumni(db, sess, blog[bi].candidate.p, fault)
                  ELSE UpdateAlumni(db, sess,
                           MergeFresh(loaded[bi], blog[bi].candidate.p, clock),
                           fault, clock)
         IN  /\ db' = w.db
             /\ sess' = w.sess
             /\ blog' = [Enter(IF w.raised THEN "rejected" ELSE "accepted")
                            EXCEPT ![bi].persisted = ~w.raised]
    /\ clock' = clock + 1
    /\ UNCHANGED <<names, bi, loaded, task>>
    /\ UNCHANGED <<searchVars, extractVars>>

\* The loop goes to the next name, or the batch returns.
StageNextName ==
    /\ task.status = "running" /\ Stage \in Terminal
    /\ IF bi < Len(names)
       THEN /\ bi' = bi + 1
            /\ blog' = Append(blog, StageEntry(names[bi + 1]))
            /\ task' = task
       ELSE /\ task' = [task EXCEPT !.status = "completed"]
            /\ UNCHANGED <<bi, blog>>
    /\ UNCHANGED <<names, loaded>>
    /\ UNCHANGED <<searchVars, extractVars, storeVars>>

StageNext ==
    StageSearch \/ StageSearched \/ StageExtracted \/ StagePersisted \/ StageNextName

SpecStages == StageInit /\ [][StageNext]_vars

Visited(h, stage) == \E i \in 1..Len(h) : h[i] = stage

(***************************************************************************)
(* C17  Per-name stage ordering.  The stages a name has been in are a      *)
(* beginning of pending, searching, extracting, merging, followed by at    *)
(* most one terminal outcome (accepted or rejected), and by exactly one    *)
(* once the name is left; extraction is entered only with at least one     *)
(* snippet, persistence only with a candidate, and no stage twice.         *)
(***************************************************************************)
C17_StageOrdering ==
    \A k \in 1..Len(blog) :
        LET h == blog[k].stages
        IN  /\ \E n \in 1..Len(StageOrder) :
                  /\ n <= Len(h)
                  /\ SubSeq(h, 1, n) = SubSeq(StageOrder, 1, n)
                  /\ \/ Len(h) = n
                     \/ Len(h) = n + 1 /\ h[n + 1] \in Terminal
            /\ (k < bi \/ task.status = "completed") => h[Len(h)] \in Terminal
            /\ Visited(h, "extracting") => blog[k].hits > 0
            /\ Visited(h, "merging") => blog[k].candidate.st = "profile"
            /\ Visited(h, "accepted") => blog[k].persisted

\* A batch in which one name went through every stage and was accepted and
\* a later one was rejected right after the search.
C17_Witness ==
    /\ task.status = "completed"
    /\ \E k \in 1..Len(blog) :
          blog[k].stages = StageOrder \o <<"accepted">>
    /\ \E k \in 1..Len(blog) :
          blog[k].stages = <<"pending", "searching", "rejected">>

(***************************************************************************)
(* C20  Extraction-unavailable fallback.  In a web-research collection     *)
(* without an API credential a name is not rejected for that reason alone: *)
(* when the search returned snippets and the fallback rule (name           *)
(* similarity and the location heuristic, confidence > 0.6 and             *)
(* name_similarity > 0.5) matches a snippet that states the searched name  *)
(* itself, and the store takes the write, the name is accepted.            *)
(***************************************************************************)
C20_ExtractionUnavailableFallback ==
    \A i \in 1..Len(blog) :
        ( /\ ~xclient
          /\ blog[i].hits > 0
          /\ blog[i].fault = "none"
          /\ BasicVerification(<<blog[i].name>>, <<blog[i].name>>, <<>>, <<>>).is_match )
        => blog[i].outcome = "accepted"

(***************************************************************************)
(* _generate_search_queries as a function of the name and the context      *)
(***************************************************************************)
\* The names and the additional_info strings the generator is called with.
\* A query f'"{clean_name}" {rest}' is the pair <<clean_name, rest>>.
QueryNames ==
    { <<"J", "o">>, <<" ", "J", "o">>, <<"J", "o", " ">>, <<"A", "l">>,
      <<"A", " ", "l">> }

QueryContexts ==
    { "", "ECU Edith Cowan University Australia", "Perth", "Curtin University",
      "professional profile", "LinkedIn", "site:linkedin.com",
      "Edith Cowan University alumni", "ECU alumni", "Australia professional",
      "company profile" }

\* _generate_search_queries(name, additional_info)
GenerateSearchQueriesFor(name, additional_info) ==
    LET clean_name == Strip(name)
        queries == [k \in 1..Len(QueryTemplates(additional_info)) |->
                       <<clean_name, QueryTemplates(additional_info)[k]>>]
    IN  Take(Dedup(queries, {}), MaxQueries)

NoQueries == [st |-> "pending", queries |-> <<>>]

QueryInit ==
    /\ SearchIdle /\ StoreIdle /\ BatchIdle
    /\ xclient = FALSE
    /\ xresp \in [name : QueryNames, additional_info : QueryContexts]
    /\ xout = NoQueries

\* queries = self._generate_search_queries(name, additional_info)
GenerateQueries ==
    /\ xout.st = "pending"
    /\ xout' = [st |-> "generated",
                queries |-> GenerateSearchQueriesFor(xresp.name,
                                                     xresp.additional_info)]
    /\ UNCHANGED <<xclient, xresp>>
    /\ UNCHANGED <<searchVars, storeVars, batchVars>>

SpecQueries == QueryInit /\ [][GenerateQueries]_vars

HasQuery(qs, rest) ==
    \E k \in 1..Len(qs) : qs[k] = <<Strip(xresp.name), rest>>

(***************************************************************************)
(* C21  Query coverage under the cap.  For every name and every non-empty  *)
(* context, the list _generate_search_queries returns has no duplicates    *)
(* and at most 6 entries, and holds the name + context query as well as    *)
(* the professional, professional-network, site-restricted, institution    *)
(* and region queries.                                                     *)
(***************************************************************************)
C21_QueryCoverageUnderCap ==
    (xout.st = "generated" /\ xresp.additional_info # "") =>
        /\ \A i, j \in 1..Len(xout.queries) :
              xout.queries[i] = xout.queries[j] => i = j
        /\ Len(xout.queries) <= MaxQueries
        /\ HasQuery(xout.queries, xresp.additional_info)
        /\ HasQuery(xout.queries, "professional profile")
        /\ HasQuery(xout.queries, "LinkedIn")
        /\ HasQuery(xout.queries, "site:linkedin.com")
        /\ HasQuery(xout.queries, "Edith Cowan University alumni")
        /\ HasQuery(xout.queries, "Australia professional")

(***************************************************************************)
(* The identity of a snippet                                               *)
(***************************************************************************)
\* The "url" of a snippet.  The direct-site probe builds its two URLs from
\* the first two words of the query, which are the name for every query of
\* a call (lines 413-414, 435, 459); the URLs the web providers return are
\* taken to differ from query to query, the case most favourable to a list
\* without repetitions.
Url(snippet) ==
    IF snippet.source = "Direct"
    THEN <<"Direct", 0, snippet.k>>
    ELSE <<snippet.source, snippet.query, snippet.k>>

(***************************************************************************)
(* C22  Snippet output shape.  The list search_person_web returns holds    *)
(* at most TopN snippets, no URL twice, and they are the first ones in     *)
(* encounter order of what the provider calls returned.                    *)
(***************************************************************************)
C22_SnippetOutputShape ==
    sstatus = "returned" =>
        /\ Len(results) <= TopN
        /\ \A i, j \in 1..Len(results) :
              Url(results[i]) = Url(results[j]) => i = j
        /\ \A i \in 1..Len(results) :
              \E k \in 1..Len(Gathered) :
                  /\ Gathered[k] = results[i]
                  /\ i < Len(results) =>
                        \E l \in (k + 1)..Len(Gathered) : Gathered[l] = results[i + 1]

DescendingAge(list) ==
    \A k \in 1..(Len(list) - 1) : list[k].days_old >= list[k + 1].days_old

(***************************************************************************)
(* C23  Scheduler output ordering.  Each of the three lists                *)
(* schedule_updates returns (immediate_update, should_update, can_update)  *)
(* is ordered by descending age: of two consecutive entries the earlier    *)
(* has days_old greater than or equal to the later, whatever the storage   *)
(* order of the profiles.                                                  *)
(***************************************************************************)
C23_SchedulerOutputOrdering ==
    task.status = "completed" =>
        /\ DescendingAge(task.immediate_update)
        /\ DescendingAge(task.should_update)
        /\ DescendingAge(task.can_update)

(***************************************************************************)
(* The alumni endpoints and the response cache: api/alumni.py, api/cache.py *)
(* Each request runs in its own thread (sync endpoints in the thread pool, *)
(* the fetch of an async endpoint in the executor); db holds the committed *)
(* rows, loaded the cache, task the requests.                              *)
(***************************************************************************)
Readers == {"get1", "get2"}
Writers == {"write"}

\* The cache keys: GET /alumni and GET /alumni/{id} for the record written.
CacheKeys == {"get_all_alumni", "get_alumni_by_id"}

\* The columns of a row the requests of the model read and write.
ApiRow(location, confidence_score) ==
    [present |-> TRUE, location |-> location,
     confidence_score |-> confidence_score]

ApiStore == <<ApiRow("Perth", 8000), ApiRow("Perth", 5000)>>

\* The body of PUT /alumni/{id}: location is "" and has_confidence FALSE when
\* the key is not in the dict.
PutBodies ==
    { [location |-> l, has_confidence |-> c[1], confidence_score |-> c[2]] :
        l \in {"", "Sydney"},
        c \in {<<FALSE, 0>>, <<TRUE, 6000>>, <<TRUE, 15000>>} }

\* format_alumni on what the store holds: the response of a GET
Formatted(d, id) ==
    [id |-> id, location |-> d[id].location,
     confidence_score |-> d[id].confidence_score]

RECURSIVE FormatAll(_, _)
FormatAll(d, id) ==
    IF id > Len(d) THEN <<>>
    ELSE (IF d[id].present THEN <<Formatted(d, id)>> ELSE <<>>)
         \o FormatAll(d, id + 1)

\* fetch_alumni / fetch_single_alumni; <<>> for the single record is the 404.
Fetch(d, key) ==
    IF key = "get_all_alumni" THEN FormatAll(d, 1)
    ELSE IF d[SharedId].present THEN <<Formatted(d, SharedId)>> ELSE <<>>

Miss == [hit |-> FALSE, value |-> <<>>]

NewRequest == [pc |-> "new", key |-> "", result |-> <<>>, late |-> FALSE]

ApiInit ==
    /\ SearchIdle
    /\ xclient = FALSE /\ xresp = NoResponse /\ xout = Pending
    /\ db = ApiStore /\ sess = FreshSession /\ clock = 0
    /\ names = <<>> /\ bi = 1 /\ blog = <<>>
    /\ loaded = [k \in CacheKeys |-> Miss]
    /\ task = [r \in Readers \cup Writers |-> NewRequest]

ApiFrame ==
    /\ UNCHANGED <<searchVars, extractVars>>
    /\ UNCHANGED <<sess, clock, names, bi, blog>>

\* cached: cache_hit, cached_result = cache.get(cache_key)
GetLookup(r) ==
    /\ task[r].pc = "new"
    /\ \E key \in CacheKeys :
         LET late == \A w \in Writers : task[w].pc = "done"
         IN  IF loaded[key].hit
             THEN task' = [task EXCEPT ![r] =
                      [pc |-> "done", key |-> key, result |-> loaded[key].value,
                       late |-> late]]
             ELSE task' = [task EXCEPT ![r] =
                      [pc |-> "fetch", key |-> key, result |-> <<>>,
                       late |-> late]]
    /\ UNCHANGED <<db, loaded>>
    /\ ApiFrame

\* result = await func(...): the store is read; a 404 leaves the wrapper
\* before cache.set
GetFetch(r) ==
    /\ task[r].pc = "fetch"
    /\ LET result == Fetch(db, task[r].key)
       IN  task' = [task EXCEPT ![r].result = result,
                                ![r].pc = IF result = <<>> THEN "done" ELSE "set"]
    /\ UNCHANGED <<db, loaded>>
    /\ ApiFrame

\* cache.set(cache_key, result, ttl); return result
GetSet(r) ==
    /\ task[r].pc = "set"
    /\ loaded' = [loaded EXCEPT ![task[r].key] =
                     [hit |-> TRUE, value |-> task[r].result]]
    /\ task' = [task EXCEPT ![r].pc = "done"]
    /\ UNCHANGED db
    /\ ApiFrame

\* An entry outlives its ttl: cache.get deletes it.
CacheExpire ==
    /\ \E key \in CacheKeys :
         /\ loaded[key].hit
         /\ loaded' = [loaded EXCEPT ![key] = Miss]
    /\ UNCHANGED <<db, task>>
    /\ ApiFrame

\* PUT /alumni/{id} up to session.commit()
PutCommit(w) ==
    /\ task[w].pc = "new"
    /\ \E body \in PutBodies :
         IF ~db[SharedId].present
         THEN /\ task' = [task EXCEPT ![w].pc = "done"]         \* 404
              /\ db' = db
         ELSE /\ db' = [db EXCEPT
                    ![SharedId].location =
                        IF body.location # "" THEN body.location ELSE @,
                    ![SharedId].confidence_score =
                        IF body.has_confidence THEN body.confidence_score ELSE @]
              /\ task' = [task EXCEPT ![w].pc = "clear", ![w].key = "put"]
    /\ UNCHANGED loaded
    /\ ApiFrame

\* DELETE /alumni/{id} up to session.commit()
DeleteCommit(w) ==
    /\ task[w].pc = "new"
    /\ IF ~db[SharedId].present
       THEN /\ task' = [task EXCEPT ![w].pc = "done"]           \* 404
            /\ db' = db
       ELSE /\ db' = [db EXCEPT ![SharedId].present = FALSE]
            /\ task' = [task EXCEPT ![w].pc = "clear", ![w].key = "delete"]
    /\ UNCHANGED loaded
    /\ ApiFrame

\* cache.clear() and the return of the write
WriteClear(w) ==
    /\ task[w].pc = "clear"
    /\ loaded' = [k \in CacheKeys |-> Miss]
    /\ task' = [task EXCEPT ![w].pc = "done"]
    /\ UNCHANGED db
    /\ ApiFrame

ApiNext ==
    \/ \E r \in Readers : GetLookup(r)
    \/ \E r \in Readers : GetFetch(r)
    \/ \E r \in Readers : GetSet(r)
    \/ CacheExpire
    \/ \E w \in Writers : PutCommit(w)
    \/ \E w \in Writers : DeleteCommit(w)
    \/ \E w \in Writers : WriteClear(w)

SpecApi == ApiInit /\ [][ApiNext]_vars

(***************************************************************************)
(* C26  Cache freshness after a write.  A GET that starts after the PUT    *)
(* or DELETE has completed (commit, then cache.clear) returns what the     *)
(* store holds after the write, whatever cached GETs were in flight during *)
(* the write.                                                              *)
(***************************************************************************)
C26_CacheFreshAfterWrite ==
    \A r \in Readers :
        (task[r].pc = "done" /\ task[r].late /\ task["write"].key # "") =>
            task[r].result = Fetch(db, task[r].key)

(***************************************************************************)
(* C24  Persisted confidence range.  Every stored profile has              *)
(* 0 <= confidence_score <= 1 after any sequence of operations, the        *)
(* PUT /alumni/{id} update included.                                       *)
(***************************************************************************)
C24_PersistedConfidenceRange ==
    \A id \in 1..Len(db) :
        db[id].present =>
            (0 <= db[id].confidence_score /\ db[id].confidence_score <= Unit)

(***************************************************************************)
(* The LinkedIn official API parser: src/services/linkedin_official_api.py *)
(***************************************************************************)
\* One entry of positions.values: its title, whether company.name is given,
\* whether it carries an endDate.
OfficialPositions ==
    [title : {"", "Dev", "Lead"}, company : BOOLEAN, ended : BOOLEAN]

\* parse_position: <<job>> or <<>> for None
ParsePosition(position_data) ==
    LET is_current == ~position_data.ended
    IN  IF position_data.title # "" /\ position_data.company
        THEN <<Job(position_data.title, is_current, 0, 0)>>
        ELSE <<>>

\* parse_official_profile: work_history is handed to the constructor as
\* collected, current_job is computed and not handed on.
ParseOfficialProfile(positions_data, original_name) ==
    [Profile(original_name, "", "", 8500, 0) EXCEPT
        !.work_history =
            Flatten([k \in 1..Len(positions_data) |->
                        ParsePosition(positions_data[k])])]

OfficialInit ==
    /\ SearchIdle /\ StoreIdle /\ BatchIdle
    /\ xclient = FALSE
    /\ xresp \in SeqsUpTo(OfficialPositions, MaxJobs)
    /\ xout = Pending

\* profile = self.parse_official_profile(detailed_profile, name)
ParseOfficial ==
    /\ xout.st = "pending"
    /\ xout' = Some(ParseOfficialProfile(xresp, "Jane Smith"))
    /\ UNCHANGED <<xclient, xresp>>
    /\ UNCHANGED <<searchVars, storeVars, batchVars>>

SpecOfficial == OfficialInit /\ [][ParseOfficial]_vars

(***************************************************************************)
(* C25  Single current position on every profile.  A profile produced by   *)
(* a collection path, here the LinkedIn official API parser, has at most   *)
(* one work_history entry with is_current = true, and that entry is the    *)
(* profile's cached current_position.                                      *)
(***************************************************************************)
C25_SingleCurrentPosition ==
    xout.st = "profile" =>
        /\ CurrentCount(xout.p.work_history) <= 1
        /\ \A k \in 1..Len(xout.p.work_history) :
              xout.p.work_history[k].is_current =>
                  xout.p.current_position = xout.p.work_history[k]

(***************************************************************************)
(* C27  Search result is never empty.  Every query the orchestrator has    *)
(* left contributed at least one snippet (the direct-site probe answers    *)
(* when DuckDuckGo and the API-key providers returned nothing), so the     *)
(* list search_person_web returns holds at least one snippet.              *)
(***************************************************************************)
C27_SearchNeverEmpty ==
    /\ \A q \in 1..Len(Queries) :
          q < sq => (slog[q] # <<>> /\ slog[q][Len(slog[q])][2] > 0)
    /\ sstatus = "returned" => Len(results) >= 1

\* A call with every API key configured in which no web provider returned
\* anything for any query, and which returned the probe's snippets.
C27_Witness ==
    /\ sstatus = "returned"
    /\ creds = KeyProviders
    /\ \A q \in 1..Len(Queries) :
          /\ Len(slog[q]) = Len(Providers)
          /\ \A i \in 1..(Len(Providers) - 1) : slog[q][i][2] = 0
    /\ \A i \in 1..Len(results) : results[i].source = "Direct"
    /\ Len(results) = TopN

(***************************************************************************)
(* Automated collection: AlumniCollector.collect_automated                 *)
(***************************************************************************)
\* The profiles BrightData returns: the "name" and "location" of each.
ScrapedProfiles ==
    { [name |-> "", location |-> <<>>],
      [name |-> "J", location |-> <<>>],
      [name |-> "Jane Smith", location |-> <<>>],
      [name |-> "Jane Smith", location |-> <<"P", "e", "r", "t", "h">>] }

\* BrightDataParser.parse_profile: None without a name, None when the
\* constructor raises; confidence 0.9.
ParseProfile(brightdata_profile) ==
    IF brightdata_profile.name = "" THEN None
    ELSE IF StripLen(brightdata_profile.name) < 2 THEN None
    ELSE Some(Profile(brightdata_profile.name, "", "", 9000, 0))

\* What the chat-completion call of verify_profile_match answers: a JSON
\* object with is_match and confidence_score, text that is not JSON, or an
\* exception.
VerifyAnswers ==
    { [kind |-> "json", is_match |-> TRUE, confidence_score |-> 9000],
      [kind |-> "json", is_match |-> FALSE, confidence_score |-> 9000],
      [kind |-> "json", is_match |-> TRUE, confidence_score |-> 3000],
      [kind |-> "not_json", is_match |-> FALSE, confidence_score |-> 0],
      [kind |-> "error", is_match |-> FALSE, confidence_score |-> 0] }

NoVerification == [is_match |-> FALSE, confidence_score |-> 0]

\* verify_profile_match: the answer's fields, or basic_verification when
\* there is no client, the answer is not JSON or the call raised.
VerifyProfileMatch(client, target_name, scraped_data, answer) ==
    IF client /\ answer.kind = "json"
    THEN [is_match |-> answer.is_match,
          confidence_score |-> answer.confidence_score]
    ELSE LET b == BasicVerification(<<target_name>>, <<scraped_data.name>>,
                                    <<>>, scraped_data.location)
         IN  [is_match |-> b.is_match,
              confidence_score |-> (b.confidence.num * Unit) \div b.confidence.den]

AutomatedResult(d, s, saved, verification, outcome) ==
    [db |-> d, sess |-> s, saved |-> saved, verification |-> verification,
     outcome |-> outcome]

\* The mutant: the profile is saved whatever the verification says.
CollectAutomatedNoGate(d, s, ai, profile_data, answer, fault) ==
    LET parsed == ParseProfile(profile_data)
    IN  IF parsed.st # "profile"
        THEN AutomatedResult(d, s, <<>>, NoVerification, "unparsed")
        ELSE LET verification ==
                     IF ai THEN VerifyProfileMatch(TRUE, parsed.p.full_name,
                                                   profile_data, answer)
                     ELSE NoVerification
                 w == CreateAlumni(d, s, parsed.p, fault)
             IN  IF w.raised
                 THEN AutomatedResult(w.db, w.sess, <<>>, verification, "error")
                 ELSE AutomatedResult(w.db, w.sess, <<w.alumni>>, verification,
                                      "saved")

\* One pass of the loop of collect_automated (lines 71-99).
CollectAutomatedOne(d, s, ai, profile_data, answer, fault) ==
    LET parsed == ParseProfile(profile_data)
    IN  IF parsed.st # "profile"
        THEN AutomatedResult(d, s, <<>>, NoVerification, "unparsed")
        ELSE LET verification ==
                     IF ai THEN VerifyProfileMatch(TRUE, parsed.p.full_name,
                                                   profile_data, answer)
                     ELSE NoVerification
                 alumni_profile ==
                     IF ai
                     THEN [parsed.p EXCEPT !.confidence_score =
                              (@ * verification.confidence_score) \div Unit]
                     ELSE parsed.p
             IN  IF ai /\ ~verification.is_match
                 THEN AutomatedResult(d, s, <<>>, verification, "not-a-match")
                 ELSE LET w == CreateAlumni(d, s, alumni_profile, fault)
                      IN  IF w.raised
                          THEN AutomatedResult(w.db, w.sess, <<>>, verification,
                                               "error")
                          ELSE AutomatedResult(w.db, w.sess, <<w.alumni>>,
                                               verification, "saved")

AutomatedInit ==
    /\ SearchIdle
    /\ xclient \in BOOLEAN /\ xresp = NoResponse /\ xout = Pending
    /\ db = <<>> /\ sess = FreshSession /\ clock = 0
    /\ names \in SeqsUpTo(ScrapedProfiles, MaxBatch) \ {<<>>}
    /\ bi = 1 /\ loaded = <<>> /\ blog = <<>>
    /\ task = [status |-> "fetching", results |-> <<>>, failed_names |-> <<>>]

\* linkedin_profiles = self.brightdata.get_alumni_profiles(...), or the
\* service is missing or raises: create_placeholder_profiles calls
\* repository.save_alumni_profile, which the repository does not have, so
\* every placeholder fails and the empty list is returned.
AutomatedFetch ==
    /\ task.status = "fetching"
    /\ \E fetched \in BOOLEAN :
         task' = [task EXCEPT !.status = IF fetched THEN "running"
                                         ELSE "placeholders"]
    /\ UNCHANGED <<names, bi, loaded, blog>>
    /\ UNCHANGED <<searchVars, extractVars, storeVars>>

AutomatedStep ==
    /\ task.status = "running"
    /\ bi <= Len(names)
    /\ \E answer \in VerifyAnswers, fault \in {"none", "flush"} :
         LET c == CollectAutomatedOne(db, sess, xclient, names[bi], answer, fault)
         IN  /\ db' = c.db
             /\ sess' = c.sess
             /\ blog' = Append(blog,
                    [data |-> names[bi], verification |-> c.verification,
                     outcome |-> c.outcome, rows_before |-> Len(db),
                     rows_after |-> Len(c.db)])
             /\ task' = [task EXCEPT !.results = @ \o c.saved]
    /\ bi' = bi + 1
    /\ UNCHANGED <<names, loaded, clock>>
    /\ UNCHANGED <<searchVars, extractVars>>

\* return collected_profiles
AutomatedFinish ==
    /\ task.status = "running"
    /\ bi > Len(names)
    /\ task' = [task EXCEPT !.status = "completed"]
    /\ UNCHANGED <<names, bi, loaded, blog>>
    /\ UNCHANGED <<searchVars, extractVars, storeVars>>

AutomatedNext == AutomatedFetch \/ AutomatedStep \/ AutomatedFinish

SpecAutomated == AutomatedInit /\ [][AutomatedNext]_vars

Saved == {i \in 1..Len(blog) : blog[i].outcome = "saved"}

(***************************************************************************)
(* C28  Verification gate in automated collection.  With the AI            *)
(* verification service configured, a scraped profile is written to the    *)
(* store and returned only if verify_profile_match reported is_match for   *)
(* it; a profile judged not a match changes nothing; and every scraped     *)
(* profile has been processed when the call returns, rejections included.  *)
(***************************************************************************)
C28_VerificationGate ==
    xclient =>
        /\ \A i \in 1..Len(blog) :
              /\ blog[i].outcome = "saved" => blog[i].verification.is_match
              /\ ~blog[i].verification.is_match =>
                    /\ blog[i].outcome \in {"not-a-match", "unparsed"}
                    /\ blog[i].rows_after = blog[i].rows_before
        /\ Len(db) = Cardinality(Saved)
        /\ Len(task.results) = Cardinality(Saved)
        /\ task.status = "completed" => Len(blog) = Len(names)

\* A returned call whose first profile was judged not a match and whose
\* second was saved.
C28_Witness ==
    /\ xclient
    /\ task.status = "completed"
    /\ Len(blog) >= 2
    /\ blog[1].outcome = "not-a-match"
    /\ blog[2].outcome = "saved"
    /\ Len(db) = 1

(***************************************************************************)
(* The LinkedIn client's rate limit: one LinkedInOfficialAPI object, whose *)
(* calls follow one another.  task is self.rate_limit, clock is            *)
(* datetime.now() in ticks, loaded describes the latest call.              *)
(***************************************************************************)
CallsPerHour == 100

\* timedelta(hours=1) in ticks of the model's clock, and the last tick
Hour == 2
MaxClock == 5

\* The status codes the API answers with; 0 is a RequestException.
LinkedInStatuses == {200, 403, 429, 500, 0}

\* The mutant: the limit is tested with > instead of >=.
IsRateLimitedOffByOne(rate_limit, now) ==
    LET rl == IF now > rate_limit.reset_time
              THEN [calls_made |-> 0, reset_time |-> now + Hour]
              ELSE rate_limit
    IN  [rate_limit |-> rl, limited |-> rl.calls_made > CallsPerHour,
         reset |-> now > rate_limit.reset_time]

\* is_rate_limited: the counter is reset when the window has passed, then
\* compared with calls_per_hour.
IsRateLimited(rate_limit, now) ==
    LET rl == IF now > rate_limit.reset_time
              THEN [calls_made |-> 0, reset_time |-> now + Hour]
              ELSE rate_limit
    IN  [rate_limit |-> rl, limited |-> rl.calls_made >= CallsPerHour,
         reset |-> now > rate_limit.reset_time]

\* increment_rate_limit
IncrementRateLimit(rate_limit) ==
    [rate_limit EXCEPT !.calls_made = @ + 1]

NoApiCall ==
    [op |-> "none", sent |-> FALSE, ended |-> "", reset |-> FALSE, now |-> 0,
     entry |-> [calls_made |-> 0, reset_time |-> 0], calls_before |-> 0]

RateLimitInit ==
    /\ SearchIdle
    /\ xclient \in BOOLEAN            \* LINKEDIN_ACCESS_TOKEN is set
    /\ xresp = NoResponse /\ xout = Pending
    /\ db = <<>> /\ sess = FreshSession /\ clock = 0
    /\ names = <<>> /\ bi = 1 /\ blog = <<>>
    /\ loaded = NoApiCall
    /\ task = [calls_made |-> 0, reset_time |-> Hour]

RateLimitFrame ==
    /\ UNCHANGED <<searchVars, extractVars>>
    /\ UNCHANGED <<db, sess, names, bi, blog>>

\* Time passes between two calls.
TimePasses ==
    /\ clock < MaxClock
    /\ clock' = clock + 1
    /\ UNCHANGED <<loaded, task>>
    /\ RateLimitFrame

\* The part search_people and get_profile_details share: the limit test,
\* the increment, the request and the way the call ends.
ApiCall(op, status) ==
    LET t == IsRateLimited(task, clock)
        call == [op |-> op, sent |-> ~t.limited, reset |-> t.reset,
                 now |-> clock, entry |-> task,
                 calls_before |-> t.rate_limit.calls_made,
                 ended |-> IF t.limited THEN "rate-limited"
                           ELSE IF status = 200 THEN "returned" ELSE "raised"]
    IN  /\ task' = IF t.limited THEN t.rate_limit
                   ELSE IncrementRateLimit(t.rate_limit)
        /\ loaded' = call

SearchPeople ==
    /\ \E status \in LinkedInStatuses :
         IF ~xclient
         THEN \* ValueError: no access token
              /\ loaded' = [NoApiCall EXCEPT !.op = "search_people",
                                             !.ended = "no-token",
                                             !.now = clock, !.entry = task,
                                             !.calls_before = task.calls_made]
              /\ task' = task
         ELSE ApiCall("search_people", status)
    /\ UNCHANGED clock
    /\ RateLimitFrame

GetProfileDetails ==
    /\ \E status \in LinkedInStatuses : ApiCall("get_profile_details", status)
    /\ UNCHANGED clock
    /\ RateLimitFrame

RateLimitNext == TimePasses \/ SearchPeople \/ GetProfileDetails

SpecRateLimit == RateLimitInit /\ [][RateLimitNext]_vars

(***************************************************************************)
(* C29  Client-side rate limit.  The LinkedIn client sends a request only  *)
(* when calls_made < calls_per_hour at that moment, so calls_made never    *)
(* exceeds calls_per_hour, and the counter goes back to 0 only after the   *)
(* window's reset_time has passed.                                         *)
(***************************************************************************)
C29_ClientRateLimit ==
    /\ task.calls_made <= CallsPerHour
    /\ loaded.sent =>
          /\ loaded.calls_before < CallsPerHour
          /\ task.calls_made = loaded.calls_before + 1
    /\ (loaded.op # "none" /\ ~loaded.sent) => task.calls_made = loaded.calls_before
    /\ loaded.reset => (loaded.now > loaded.entry.reset_time /\ loaded.calls_before = 0)
    /\ (loaded.op # "none" /\ ~loaded.reset) =>
          (loaded.calls_before = loaded.entry.calls_made
           /\ task.reset_time = loaded.entry.reset_time)

\* A call that found the counter at the limit after the window had passed,
\* reset it and sent its request.
C29_Witness ==
    /\ loaded.entry.calls_made = CallsPerHour
    /\ loaded.reset
    /\ loaded.sent
    /\ task.calls_made = 1

(***************************************************************************)
(* Snapshot polling: BrightDataService.get_single_profile and              *)
(* wait_for_completion.  clock is time.time() - start_time in seconds,     *)
(* task the position of the call.                                          *)
(***************************************************************************)
MaxWait == 300
PollSleep == 5

\* What a request to BrightData does: it answers (for a progress request
\* with one of the statuses), answers with an error status
\* (raise_for_status raises), or never answers: requests.get and
\* requests.post are called without a timeout.
ProgressAnswers == {"running", "ready", "failed", "http_error"}

\* How long an answered request takes, in seconds.
RequestSeconds == {0, PollSleep}

PollInit ==
    /\ SearchIdle
    /\ xclient = FALSE /\ xresp = NoResponse /\ xout = Pending
    /\ db = <<>> /\ sess = FreshSession /\ clock = 0
    /\ names \in {<<n>> : n \in NameSet \cup {"J"}}
    /\ bi = 1 /\ loaded = <<>> /\ blog = <<>>
    /\ task = [pc |-> "trigger", status |-> "", ended |-> "",
               fetched |-> FALSE]

PollFrame ==
    /\ UNCHANGED <<searchVars, extractVars>>
    /\ UNCHANGED <<db, sess, names, bi, loaded, blog>>

\* snapshot_id = self.trigger_discovery(records); start_time = time.time()
TriggerDiscovery ==
    /\ task.pc = "trigger"
    /\ \E ok \in BOOLEAN :
         task' = IF ok THEN [task EXCEPT !.pc = "test"]
                 ELSE [task EXCEPT !.pc = "done", !.ended = "http-error"]
    /\ UNCHANGED clock
    /\ PollFrame

\* while time.time() - start_time < max_wait: ... raise TimeoutError
LoopTest ==
    /\ task.pc = "test"
    /\ task' = IF clock < MaxWait THEN [task EXCEPT !.pc = "check"]
               ELSE [task EXCEPT !.pc = "done", !.ended = "timeout"]
    /\ UNCHANGED clock
    /\ PollFrame

\* progress = self.check_progress(snapshot_id) and the tests on its status
CheckProgress ==
    /\ task.pc = "check"
    /\ \E answer \in ProgressAnswers, seconds \in RequestSeconds :
         /\ clock' = clock + seconds
         /\ task' = CASE answer = "ready" ->
                           [task EXCEPT !.pc = "snapshot", !.status = answer]
                      [] answer = "failed" ->
                           [task EXCEPT !.pc = "done", !.status = answer,
                                        !.ended = "failed"]
                      [] answer = "http_error" ->
                           [task EXCEPT !.pc = "done", !.ended = "http-error"]
                      [] OTHER ->
                           [task EXCEPT !.pc = "sleep", !.status = answer]
    /\ PollFrame

\* The progress request is never answered.
CheckProgressHangs ==
    /\ task.pc = "check"
    /\ task' = [task EXCEPT !.pc = "blocked"]
    /\ UNCHANGED clock
    /\ PollFrame

\* time.sleep(5)
Sleep ==
    /\ task.pc = "sleep"
    /\ clock' = clock + PollSleep
    /\ task' = [task EXCEPT !.pc = "test"]
    /\ PollFrame

\* raw_data = self.get_snapshot(snapshot_id); return normalize_data(raw_data)
GetSnapshot ==
    /\ task.pc = "snapshot"
    /\ \E ok \in BOOLEAN :
         task' = [task EXCEPT !.pc = "done", !.fetched = TRUE,
                              !.ended = IF ok THEN "returned" ELSE "http-error"]
    /\ UNCHANGED clock
    /\ PollFrame

PollNext ==
    \/ TriggerDiscovery \/ LoopTest \/ CheckProgress \/ CheckProgressHangs
    \/ Sleep \/ GetSnapshot

\* Every step of the call that can be taken is taken: the thread runs.
SpecPolling == PollInit /\ [][PollNext]_vars /\ WF_vars(PollNext)

(***************************************************************************)
(* C30  Snapshot polling terminates.  wait_for_completion always ends: it  *)
(* is left for the snapshot only after a progress check reported ready,    *)
(* it raises when a check reports failed, it raises TimeoutError once      *)
(* max_wait has elapsed, and the snapshot is fetched only after a ready    *)
(* check.                                                                  *)
(***************************************************************************)
C30_PollingTerminates ==
    /\ [](task.pc = "snapshot" => task.status = "ready")
    /\ [](task.fetched => task.status = "ready")
    /\ [](task.ended = "timeout" => clock >= MaxWait)
    /\ [](task.status = "failed" => task.pc = "done")
    /\ (task.pc = "test") ~> (task.pc \in {"snapshot", "done"})

====
